---- MODULE Spec2Model ----
(***************************************************************************)
(* Function-call block renderer of MCP-SuperAssistant                      *)
(* (pages/content/src/render_prescript/src/renderer/functionBlock.ts):     *)
(* the rendered-block registry, the execution tracker (Ledger), the        *)
(* auto-execution scheduler (direct attempt and retry loop), the periodic  *)
(* button scanner and the DOM mutation observer.                           *)
(*                                                                         *)
(* Strings are sequences of one-character strings, so that keys built by   *)
(* concatenation with ':' keep their structure.                            *)
(*                                                                         *)
(* Spec       - one block with every trigger path of its action control:   *)
(*              renderer, Ledger, scheduler, scanner, manual activation.   *)
(* SpecPair   - two blocks and their schedulers.                           *)
(* SpecFallback - two blocks of one function name, controls removed.       *)
(* SpecRender - one block with every text, detached and attached.          *)
(* SpecStream - one block whose parameters stream in, on a 1 s clock.      *)
(* SpecObs    - the mutation observer with its timers on a 100 ms clock.   *)
(* SpecSwitch - SpecObs with the observer switched on and off from outside.*)
(* SpecDiscover - RawBlocks inserted and filled while the coordinator runs; *)
(*              SpecDiscoverFair adds that due timers fire.                *)
(* SpecSidebar - the sidebar's transition flag, resize frames and timers;   *)
(*              SpecSidebarFair adds the browser's fairness.               *)
(* SpecFair   - Spec with the timers of the retry loops firing.            *)
(* SpecParse  - one block over the raw texts of the parameter extractor.   *)
(* SpecGrow   - one block whose text arrives piece by piece.               *)
(* SpecLedger - the execution tracker called through its interface, next   *)
(*              to one block that is rendered and retried.                 *)
(* SpecAlias  - the execution tracker with keys that hold the separator.   *)
(***************************************************************************)
EXTENDS Integers, Sequences, FiniteSets, TLC

\* ---------------------------------------------------------------- bounds
Blocks == {1, 2}
\* how often the host page may remove an action control
MaxRemovals == 1

\* ------------------------------------------------------ program constants
DEFAULT_AUTO_EXECUTE == TRUE
MAX_AUTO_EXECUTE_ATTEMPTS == 8

\* ---------------------------------------------------------------- strings
Digit == <<"1", "2", "3", "4">>
Colon == <<":">>
NoStr == <<>>
DefaultName == <<"f", "u", "n", "c", "t", "i", "o", "n">>

\* `block-${Date.now()}-${random}`: unique per RawBlock
BlockId(b) == <<"b">> \o <<Digit[b]>>

\* ------------------------------------------------------------------ texts
\* A raw text is a sequence of tokens: a whole tag, a CDATA delimiter, a
\* whitespace character or another character.
FunctionCallsOpen == "<function_calls>"
FunctionCallsEnd == "</function_calls>"
InvokeWithId == "<invoke name=s call_id=c>"
InvokeNoId == "<invoke name=s>"
InvokeEnd == "</invoke>"
ParamOpenQ == "<parameter name=q>"
ParamOpenR == "<parameter name=r>"
ParamEnd == "</parameter>"
CdataOpen == "<![CDATA["
CdataEnd == "]]>"
Whitespace == {" "}
ParamOpeners == {ParamOpenQ, ParamOpenR}
OpenerName(tok) == IF tok = ParamOpenQ THEN "q" ELSE "r"

Has(raw, tok) == \E i \in 1..Len(raw) : raw[i] = tok
MinOf(S) == CHOOSE x \in S : \A y \in S : x <= y
MaxOf(S) == CHOOSE x \in S : \A y \in S : y <= x

\* String.prototype.trim (lines 433, 587)
TrimWs(str) ==
  LET Cut(keep) == IF keep = {} THEN <<>> ELSE SubSeq(str, MinOf(keep), MaxOf(keep))
  IN Cut({i \in 1..Len(str) : str[i] \notin Whitespace})

\* lines 580-588: extractedValue.match(/<!\[CDATA\[(.*?)(?:\]\]>)?$/s) - the
\* match starts at the first CDATA opener and runs to the end of the value;
\* the terminator is left out of the capture only when the value ends with it
CdataOrTrim(seg) ==
  LET Capture(k) ==
        IF Len(seg) > k /\ seg[Len(seg)] = CdataEnd
          THEN SubSeq(seg, k + 1, Len(seg) - 1)
          ELSE SubSeq(seg, k + 1, Len(seg))
      Match(cds) == IF cds = {} THEN TrimWs(seg) ELSE Capture(MinOf(cds))
  IN Match({k \in 1..Len(seg) : seg[k] = CdataOpen})

\* lines 564-590 for the opener at position i of rawContent
ParamAt(raw, i) ==
  LET \* rawContent.indexOf('</parameter>', startIndex)
      Value(ends) ==
        [n |-> OpenerName(raw[i]),
         v |-> CdataOrTrim(IF ends = {} THEN SubSeq(raw, i + 1, Len(raw))
                           ELSE SubSeq(raw, i + 1, MinOf(ends) - 1)),
         open |-> (ends = {})]
  IN Value({j \in (i + 1)..Len(raw) : raw[j] = ParamEnd})

\* lines 561-563: every match of paramStartRegex, in document order
RECURSIVE ParamsFrom(_, _)
ParamsFrom(raw, i) ==
  IF i > Len(raw) THEN <<>>
  ELSE IF raw[i] \in ParamOpeners THEN <<ParamAt(raw, i)>> \o ParamsFrom(raw, i + 1)
  ELSE ParamsFrom(raw, i + 1)

\* What the scans of renderFunctionCall see in the text of a RawBlock:
\*   has      the text contains the <function_calls> directive
\*   complete the closing tag of the call is present
\*   invoke   the <invoke name=".."> tag is present; name and cid (call_id,
\*            NoStr when the attribute is absent) are its captures
\*   ps       the <parameter> openers in document order with the value seen
\*            so far; open = no closing </parameter> yet
ScanContent(rawContent) ==
  [has |-> Has(rawContent, FunctionCallsOpen),
   complete |-> Has(rawContent, FunctionCallsOpen) /\ Has(rawContent, FunctionCallsEnd),
   invoke |-> Has(rawContent, InvokeWithId) \/ Has(rawContent, InvokeNoId),
   name |-> IF Has(rawContent, InvokeWithId) \/ Has(rawContent, InvokeNoId)
              THEN <<"s">> ELSE NoStr,
   cid |-> IF Has(rawContent, InvokeWithId)
              /\ \A i, j \in 1..Len(rawContent) :
                   (rawContent[i] = InvokeWithId /\ rawContent[j] = InvokeNoId) => i < j
             THEN <<"c">> ELSE NoStr,
   ps |-> ParamsFrom(rawContent, 1)]
\* line 433: block.textContent?.trim() || ''
Scan(raw) == ScanContent(TrimWs(raw))

\* The raw texts of the blocks of Spec, SpecPair and SpecRender
Texts ==
  << <<"h">>,
     <<FunctionCallsOpen>>,
     <<FunctionCallsOpen, InvokeWithId, ParamOpenQ, "h">>,
     <<FunctionCallsOpen, InvokeWithId, ParamOpenQ, "h", "i", ParamEnd, InvokeEnd,
       FunctionCallsEnd>>,
     <<FunctionCallsOpen, InvokeNoId, ParamOpenQ, "h", "i", ParamEnd, InvokeEnd,
       FunctionCallsEnd>> >>

TextIds == 1..Len(Texts)
\* the texts of Spec: no directive yet, or the complete call with call_id
ExecTexts == {1, 4}
ParamNames == {"q", "r"}

\* content.match(/<invoke name="([^"]+)"(?:\s+call_id="([^"]+)")?>/i)
FunctionNameOf(t) == IF t.invoke THEN t.name ELSE DefaultName
CallIdOf_BlockOnly(t, b) == BlockId(b)
CallIdOf(t, b) == IF t.invoke /\ t.cid # NoStr THEN t.cid ELSE BlockId(b)

RECURSIVE ConcatValues(_, _)
ConcatValues(ps, i) ==
  IF i > Len(ps) THEN <<>> ELSE <<"|">> \o ps[i].v \o ConcatValues(ps, i + 1)

\* generateContentSignature(functionName, parameterMap): deterministic in the
\* function name and the parameter values
generateContentSignature(name, ps) == <<"#">> \o name \o ConcatValues(ps, 1)

\* the record key of persistent storage
StorageKey(name, callId, sig) == <<name, callId, sig>>

\* the (name, callId, signature) of the call a text carries for block b
CallOf(t, b) ==
  StorageKey(FunctionNameOf(t), CallIdOf(t, b),
             generateContentSignature(FunctionNameOf(t), t.ps))

\* ---------------------------------------------------------------- tracker
\* executionTracker.markFunctionExecuted: the key added to executedFunctions
Trim(s) == SelectSeq(s, LAMBDA c : c # " ")
\* an optional functionName that was not passed (typeof functionName !== 'string')
Undefined == <<"undefined">>
\* lines 340-350
MarkKey(callId, sig, name) ==
  IF name # Undefined /\ Len(Trim(name)) > 0
    THEN name \o Colon \o callId \o Colon \o sig
    ELSE callId \o Colon \o sig

markFunctionExecuted_Skip(set, callId, sig, name) == set
markFunctionExecuted(set, callId, sig, name) == set \cup {MarkKey(callId, sig, name)}

\* getPreviousExecution(functionName, callId, signature) !== null
getPreviousExecution(store, name, callId, sig) == StorageKey(name, callId, sig) \in store
\* getPreviousExecutionLegacy(callId, signature) !== null: a record stored
\* without a function name
getPreviousExecutionLegacy(store, callId, sig) ==
  StorageKey(Undefined, callId, sig) \in store

\* key.split(':')
RECURSIVE Split(_)
Split(key) ==
  LET Cut(at) ==
        IF at = {} THEN <<key>>
        ELSE <<SubSeq(key, 1, MinOf(at) - 1)>>
               \o Split(SubSeq(key, MinOf(at) + 1, Len(key)))
  IN Cut({i \in 1..Len(key) : key[i] = ":"})

\* executionTracker.isFunctionExecuted (lines 278-334)
isFunctionExecuted(set, store, callId, sig, name) ==
  LET \* lines 286-300
      standard ==
        /\ name # Undefined
        /\ \/ (name \o Colon \o callId \o Colon \o sig) \in set
           \/ getPreviousExecution(store, name, callId, sig)
      \* lines 303-321
      extracted ==
        /\ name = Undefined
        /\ \E key \in set :
             \E parts \in {Split(key)} :
               Len(parts) = 3 /\ parts[2] = callId /\ parts[3] = sig
      \* lines 324-333
      legacy ==
        \/ (callId \o Colon \o sig) \in set
        \/ (Colon \o callId \o Colon \o sig) \in set
        \/ getPreviousExecutionLegacy(store, callId, sig)
  IN standard \/ extracted \/ legacy

VARIABLES
  text,               \* RawBlock -> its current raw text
  par,                \* RawBlock -> it has a parent node
  attr,               \* RawBlock -> data-block-id attribute is set
  proc,               \* processedElements (as a characteristic function)
  hidden,             \* RawBlock -> style.display = 'none'
  divs,               \* block id -> the function-block divs created for it
  reg,                \* renderedFunctionBlocks: block id -> index in divs, 0 = no entry
  preExisting,        \* window.preExistingIncompleteBlocks
  toggle,             \* window.toggleState.autoExecute: "undef", "on", "off"
  executedFunctions,  \* executionTracker.executedFunctions
  executedBlocks,     \* executionTracker.executed
  attempts,           \* executionTracker.attempts
  storage,            \* persistent storage of executed calls
  scheds,             \* pending auto-execution timers (setupAutoExecution / retry)
  scanClicks,         \* pending delayed clicks of the button scanner
  streamTimers,       \* pending streaming-marker timers, <<block, param name, seconds left>>
  removals,           \* number of action controls removed by the host page
  activated,          \* history: <<block, call>> whose control has been activated
  markedBy,           \* history: <<block, ledger key>> marked by that block's scheduler
  gaveUp,             \* history: blocks whose retry loop gave up at the ceiling
  click,              \* the activation made by the last step, NoClick if none
  eval,               \* the scheduler evaluation made by the last step, NoEval if none
                      \* (SpecObs: what the last callback of a batch block did)
  domObserver,        \* "null", "observing", "disconnected"
  observerEnabled,
  obsTimers,          \* pending observer timers (SpecObs), each with its remaining ticks
  batches,            \* SpecObs history: the number of batches queued so far
  marks,              \* SpecAlias history: <<callId, signature, name>> passed to markFunctionExecuted
  processed,          \* RawBlock -> data-processed attribute is set
  explicitOff,        \* history: disableDOMObserver() was called, enableDOMObserver() not since
  isTransitioning,    \* sidebar: the transition state
  sidebarTimers,      \* sidebar: the pending timeouts; held = transitionTimerRef points at it
  gestures,           \* sidebar: user gestures so far (toggles and resize events)
  isResizing,         \* sidebar: isResizingRef
  frames,             \* sidebar: pending requestAnimationFrame callbacks (their widths)
  sidebarWidth        \* sidebar: the width state

blockVars == <<text, par, attr, proc, hidden, divs, reg, preExisting>>
trackerVars == <<executedFunctions, executedBlocks, attempts>>
histVars == <<activated, markedBy, gaveUp>>
obsVars == <<domObserver, observerEnabled, obsTimers, batches>>
sidebarVars == <<isTransitioning, sidebarTimers, gestures, isResizing, frames, sidebarWidth>>
\* what no step of the renderer, the scheduler or the scanner writes
outerVars == <<processed, explicitOff, sidebarVars>>
vars == <<blockVars, toggle, trackerVars, storage, scheds, scanClicks,
          streamTimers, removals, histVars, click, eval, obsVars, marks, outerVars>>

NoClick == [by |-> "none"]
\* part_000 line 25
SIDEBAR_DEFAULT_WIDTH == 320
NoEval == [out |-> "none"]
\* a step that neither activates a control nor evaluates the scheduler
Quiet == click' = NoClick /\ eval' = NoEval

\* ------------------------------------------------------------ DOM helpers

\* document.createElement('div') as renderFunctionCall starts it
NewDiv ==
  [inDoc |-> FALSE, place |-> "none", loading |-> FALSE, completec |-> FALSE, spinner |-> 0,
   names |-> 0, nameText |-> NoStr, badges |-> 0, badgeText |-> NoStr,
   pcont |-> FALSE, params |-> <<>>, bcont |-> FALSE, toggles |-> 0,
   button |-> "none", controls |-> 0, aer |-> TRUE, bkey |-> <<>>, run |-> <<>>]

\* document.querySelectorAll(`.function-block[data-block-id="${blockId}"]`)[0]
FirstInDoc(dv, b) ==
  IF \E i \in 1..Len(dv[b]) : dv[b][i].inDoc
    THEN CHOOSE i \in 1..Len(dv[b]) :
           dv[b][i].inDoc /\ \A j \in 1..(i - 1) : ~dv[b][j].inDoc
    ELSE 0

\* querySelector(`.param-name[data-param-id="${blockId}-${name}"]`)
ParamIndex_Miss(params, name) == 0
ParamIndex(params, name) ==
  IF \E i \in 1..Len(params) : params[i].n = name
    THEN CHOOSE i \in 1..Len(params) :
           params[i].n = name /\ \A j \in 1..(i - 1) : params[j].n # name
    ELSE 0

\* A name/value node pair: v the text shown, sc the streaming class of the
\* name node, ds the data-streaming attribute of the value node, pre whether
\* the value node holds a <pre> child.
NewParam(name) == [n |-> name, v |-> NoStr, sc |-> FALSE, ds |-> FALSE, pre |-> FALSE]

\* line 1020: the streaming marker is cleared after 3000 ms (in seconds)
STREAM_CLEAR_DELAY == 3

\* lines 960-966: clearTimeout of the timer stored under the parameter's key
clearStreamingTimeout(timers, b, name) ==
  {x \in timers : ~(x[1] = b /\ x[2] = name)}

\* createOrUpdateParamElement on the parameter area `params` of block b;
\* timers is the set of pending streaming-marker timers
createOrUpdateParamElement(params, timers, b, name, value, isStreaming) ==
  LET \* lines 969-1029: the streaming marker of the pair
      Mark(p1) == IF isStreaming THEN [p1 EXCEPT !.sc = TRUE, !.ds = TRUE]
                  ELSE IF p1.sc THEN [p1 EXCEPT !.sc = FALSE, !.ds = FALSE]
                  ELSE p1
      \* lines 925-949: streaming text goes into a <pre>; a plain update
      \* replaces the children of the value node by the text
      Paint(p) == Mark([p EXCEPT !.v = value, !.pre = (isStreaming \/ p.ds)])
      At(ps1, i) == [ps1 EXCEPT ![i] = Paint(@)]
      \* lines 892-922: the pair is created when it is not there yet
      Place(i0) == IF i0 = 0 THEN At(Append(params, NewParam(name)), Len(params) + 1)
                   ELSE At(params, i0)
  IN [params |-> Place(ParamIndex(params, name)),
      \* lines 960-966, 1012-1020
      timers |-> IF isStreaming
                   THEN clearStreamingTimeout(timers, b, name)
                          \cup {<<b, name, STREAM_CLEAR_DELAY>>}
                   ELSE clearStreamingTimeout(timers, b, name)]

\* lines 559-596: one createOrUpdateParamElement per <parameter> opener
RECURSIVE RenderParams(_, _, _, _, _)
RenderParams(params, timers, b, ps, i) ==
  IF i > Len(ps) THEN [params |-> params, timers |-> timers]
  ELSE LET Rest(r) == RenderParams(r.params, r.timers, b, ps, i + 1)
       IN Rest(createOrUpdateParamElement(params, timers, b, ps[i].n, ps[i].v, ps[i].open))

\* ------------------------------------------------------- the action control
\* A control is "none" (absent), "disabled" or "ready" (actionable); aer is
\* FALSE when its data-auto-exec-ready attribute is 'false'; bkey is the call
\* bound to it by addExecuteButton(container, rawContent); run the call that
\* is running, <<>> if none.
\*
\* The click handler installed by addExecuteButton: the call bound to the
\* control starts running, the control is disabled while it runs and is
\* marked as processed for the scanner.
\* by: "direct", "retry", "scanner", "manual"; from: the block whose
\* scheduler, scan or user dispatched the click; skey: the call that
\* dispatcher acts for.
ClickControl(dv, ef, tg, b, d, by, from, skey) ==
  LET key == dv[b][d].bkey IN
  [divs |-> [dv EXCEPT ![b][d].button = "disabled", ![b][d].aer = FALSE,
                       ![b][d].run = key],
   activated |-> activated \cup {<<b, key>>},
   click |-> [by |-> by, b |-> b, from |-> from, key |-> key,
              flag |-> (tg = "on"),
              marked |-> (MarkKey(skey[2], skey[3], skey[1]) \in ef),
              prior |-> (<<b, key>> \in activated),
              again |-> (\E a \in activated : a[2] = key)]]

\* ------------------------------------------------------------------ render
\* lines 861-868: with an observer object present, disconnect it and set the
\* 1000 ms timer that calls setupDOMObserver (10 ticks of 100 ms)
SETUP_DELAY == 10
\* line 243: the module-load timer of setupDOMObserver, 500 ms
LOAD_SETUP_DELAY == 5
ObsTimer(kind, left, last, status, tail) ==
  [kind |-> kind, left |-> left, last |-> last, status |-> status, tail |-> tail]
RenderTail(obs, timers) ==
  IF obs # "null"
    THEN [obs |-> "disconnected",
          timers |-> Append(timers, ObsTimer("setup", SETUP_DELAY, FALSE, FALSE, FALSE))]
    ELSE [obs |-> obs, timers |-> timers]

\* (window as any).toggleState.autoExecute === true (lines 181, 216, 668)
AutoExecuteEnabled_Always(tg) == TRUE
AutoExecuteEnabled(tg) == tg = "on"

\* lines 408-422: the div renderFunctionCall updates, 0 for a new render
ExistingDiv_Lost(b) == 0
ExistingDiv(b) == IF proc[b] /\ reg[b] = 0 THEN FirstInDoc(divs, b) ELSE reg[b]

\* lines 452-485: the lifecycle classes of the rendered block; pre: the host
\* page had already marked the RawBlock as one of an earlier conversation
Lifecycle(d0, isNew, t, pre) ==
  LET prev == ~d0.loading IN
  IF ~isNew
    THEN IF ~prev /\ t.complete
           THEN [d0 EXCEPT !.loading = FALSE, !.completec = TRUE,
                           !.spinner = IF @ > 0 THEN @ - 1 ELSE 0]
         ELSE IF prev /\ ~t.complete
           THEN [d0 EXCEPT !.completec = FALSE, !.loading = TRUE]
         ELSE d0
    ELSE IF ~t.complete /\ ~pre THEN [d0 EXCEPT !.loading = TRUE] ELSE d0

\* lines 487-543: name label, call-id badge, spinner
NameAndBadge(d1, t, b, pre) ==
  IF d1.names = 0
    THEN [d1 EXCEPT !.names = 1, !.nameText = FunctionNameOf(t),
                    !.badges = 1, !.badgeText = CallIdOf(t, b),
                    !.spinner = IF ~t.complete /\ ~pre THEN @ + 1 ELSE @]
    ELSE [d1 EXCEPT !.nameText = FunctionNameOf(t),
                    !.badges = IF @ = 0 THEN 1 ELSE @,
                    !.badgeText = CallIdOf(t, b)]

\* lines 611-619: a new rendered block is inserted before its RawBlock when
\* that has a parent; place is where the rendered block was put
insertBefore(d2, isNew, hasParent) ==
  IF isNew /\ hasParent THEN [d2 EXCEPT !.inDoc = TRUE, !.place = "before"] ELSE d2

\* lines 399-619 for block b with text t, given the div that lines 408-422
\* found (0: none)
SubtreeOf(b, t, existing) ==
  LET \* lines 408-422
      proc1 == IF proc[b] /\ existing = 0 THEN FALSE ELSE proc[b]
      \* lines 424-450
      isNew == existing = 0
      \* lines 545-596, 610-619
      Finish(d2, rp) ==
        [div |-> insertBefore([d2 EXCEPT !.pcont = TRUE, !.params = rp.params],
                              isNew, par[b]),
         idx |-> IF isNew THEN Len(divs[b]) + 1 ELSE existing,
         isNew |-> isNew,
         failed |-> (isNew /\ ~par[b]),
         proc |-> (proc1 \/ isNew),
         attr |-> (attr[b] \/ (isNew /\ ~proc1)),
         timers |-> rp.timers]
      WithParams(d2) == Finish(d2, RenderParams(d2.params, streamTimers, b, t.ps, 1))
  IN WithParams(NameAndBadge(Lifecycle(IF isNew THEN NewDiv ELSE divs[b][existing],
                                       isNew, t, b \in preExisting),
                             t, b, b \in preExisting))

\* renderFunctionCall(block) up to the insertion of the rendered block
\* (lines 399-619).  Result: the rendered div, its index, and whether the
\* call returned false because the RawBlock has no parent.
RenderSubtree(b) == SubtreeOf(b, Scan(text[b]), ExistingDiv(b))

\* lines 621-643: button container and raw-content toggle
RenderButtons(d, t) ==
  [d EXCEPT !.bcont = TRUE,
            !.toggles = IF t.complete /\ @ = 0 THEN 1 ELSE @]

\* line 646: functionInfo.isComplete && !blockDiv.querySelector('.execute-button')
NeedsControl_Unguarded(d, t) == t.complete
NeedsControl(d, t) == t.complete /\ d.button = "none"

\* lines 660-666: a flag that is undefined is set to the default, a flag
\* that is set is left as it is
ToggleOrDefault_Override(tg) == IF DEFAULT_AUTO_EXECUTE THEN "on" ELSE "off"
ToggleOrDefault(tg) ==
  IF tg = "undef" THEN (IF DEFAULT_AUTO_EXECUTE THEN "on" ELSE "off") ELSE tg

\* The scheduler evaluation of lines 658-858 for block b whose action control
\* was just created in div number idx (dv: the divs with that control added);
\* throws: whether button.click() throws.
SchedulerEvaluation(b, t, idx, dv, throws) ==
  LET fname == FunctionNameOf(t)
      extractedCallId == CallIdOf(t, b)
      sig == generateContentSignature(fname, t.ps)
      key == StorageKey(fname, extractedCallId, sig)
      lkey == MarkKey(extractedCallId, sig, fname)
      \* lines 660-668
      tg == ToggleOrDefault(toggle)
      autoExecuteEnabled == AutoExecuteEnabled(tg)
      ev(out) == [out |-> out, b |-> b, key |-> key, flag |-> (tg = "on"),
                  marked |-> (lkey \in executedFunctions),
                  other |-> (\E m \in markedBy : m[1] # b /\ m[2] = lkey)]
      stop(out) ==
        [divs |-> dv, toggle |-> tg, ef |-> executedFunctions,
         eb |-> executedBlocks, scheds |-> scheds, activated |-> activated,
         markedBy |-> markedBy, click |-> NoClick, eval |-> ev(out), tail |-> FALSE]
      \* lines 710-711, 734-737
      ef1 == markFunctionExecuted(executedFunctions, extractedCallId, sig, fname)
      eb1 == executedBlocks \cup {b}
      go(out) == [stop(out) EXCEPT !.ef = ef1, !.eb = eb1, !.tail = TRUE,
                                   !.markedBy = @ \cup {<<b, lkey>>}]
      \* lines 740-758
      direct == dv[b][idx].button = "ready" /\ ~throws
      c == ClickControl(dv, ef1, tg, b, idx, "direct", b, key)
  IN \* lines 683-690
     IF getPreviousExecution(storage, fname, extractedCallId, sig) THEN stop("storage")
     \* lines 693-696
     ELSE IF ~autoExecuteEnabled THEN stop("disabled")
     \* lines 700-703
     ELSE IF b \in executedBlocks /\ attempts[b] > 0 THEN stop("busy")
     \* lines 855-858
     ELSE IF direct
       THEN [go("direct") EXCEPT !.divs = c.divs, !.activated = c.activated,
                                 !.click = c.click]
       ELSE [go("retry") EXCEPT
               !.scheds = Append(scheds, [b |-> b, d |-> idx, name |-> fname,
                                          cid |-> extractedCallId, sig |-> sig,
                                          n |-> 0])]

\* renderFunctionCall(block, ..) as one synchronous turn.  base: the pending
\* coordinator timers the call starts from; extra: the timers its caller sets
\* after it has returned (line 142, in a callback of the coordinator).
RenderWith(b, base, extra) ==
  \E t \in {Scan(text[b])} :
  IF ~t.has
    THEN \* line 395
         /\ Quiet
         /\ obsTimers' = base \o extra
         /\ UNCHANGED <<blockVars, toggle, trackerVars, storage, scheds, scanClicks,
                        streamTimers, removals, histVars, domObserver, observerEnabled,
                        batches, marks, outerVars>>
    ELSE
      \E s \in {RenderSubtree(b)} :
      LET put(d) == [divs EXCEPT ![b] = IF s.isNew THEN Append(@, d)
                                         ELSE [@ EXCEPT ![s.idx] = d]]
      IN
      /\ reg' = [reg EXCEPT ![b] = s.idx]
      /\ proc' = [proc EXCEPT ![b] = s.proc]
      /\ attr' = [attr EXCEPT ![b] = s.attr]
      /\ streamTimers' = s.timers
      /\ UNCHANGED <<text, par, preExisting, attempts, storage, scanClicks,
                     removals, observerEnabled, batches, marks, outerVars>>
      /\ IF s.failed
           THEN \* line 617
                /\ divs' = put(s.div)
                /\ Quiet
                /\ obsTimers' = base \o extra
                /\ UNCHANGED <<hidden, toggle, executedFunctions, executedBlocks,
                               scheds, histVars, domObserver>>
           ELSE
             \E d5 \in {RenderButtons(s.div, t)},
                tl \in {RenderTail(domObserver, base)} :
             /\ hidden' = [hidden EXCEPT ![b] = @ \/ s.isNew]
             /\ IF ~NeedsControl(d5, t)
                  THEN /\ divs' = put(d5)
                       /\ domObserver' = tl.obs
                       /\ obsTimers' = tl.timers \o extra
                       /\ Quiet
                       /\ UNCHANGED <<toggle, executedFunctions, executedBlocks,
                                      scheds, histVars>>
                  ELSE \* lines 645-858
                       \E btn \in {"ready", "disabled"}, throws \in BOOLEAN :
                         \E r \in {SchedulerEvaluation(b, t, s.idx,
                                      put([d5 EXCEPT !.button = btn, !.aer = TRUE,
                                                     !.controls = @ + 1,
                                                     !.bkey = CallOf(t, b)]),
                                      throws)} :
                            /\ divs' = r.divs
                            /\ toggle' = r.toggle
                            /\ executedFunctions' = r.ef
                            /\ executedBlocks' = r.eb
                            /\ scheds' = r.scheds
                            /\ activated' = r.activated
                            /\ markedBy' = r.markedBy
                            /\ UNCHANGED gaveUp
                            /\ click' = r.click
                            /\ eval' = r.eval
                            /\ domObserver' = IF r.tail THEN tl.obs ELSE domObserver
                            /\ obsTimers' = (IF r.tail THEN tl.timers ELSE base) \o extra

\* a call of renderFunctionCall from outside the mutation coordinator
Render(b) == RenderWith(b, obsTimers, <<>>)

\* --------------------------------------------------------------- scheduler
\* a pending timer that has fired and was not set again is gone
RemoveAt_Keep(q, i) == q
RemoveAt(q, i) == SubSeq(q, 1, i - 1) \o SubSeq(q, i + 1, Len(q))

\* indices of the divs a block can have
DivIdx == 1..(MaxRemovals + 2)

\* the execute buttons of the document, as <<block, div>>
DocButtons(dv) ==
  {c \in Blocks \X DivIdx :
     c[2] <= Len(dv[c[1]]) /\ dv[c[1]][c[2]].inDoc /\ dv[c[1]][c[2]].button # "none"}

\* document order of two rendered blocks
Before(c1, c2) == c1[1] < c2[1] \/ (c1[1] = c2[1] /\ c1[2] < c2[2])

\* lines 788-813: the control a retry attempt of instance s acts on, <<>> if none
LocateButton(dv, s) ==
  IF dv[s.b][s.d].button # "none" THEN <<s.b, s.d>>
  ELSE LET cand == {c \in DocButtons(dv) :
                      \/ (dv[c[1]][c[2]].names > 0 /\ dv[c[1]][c[2]].nameText = s.name)
                      \/ c[1] = s.b}
       IN IF cand = {} THEN <<>>
          ELSE CHOOSE c \in cand : \A c2 \in cand : c2 = c \/ Before(c, c2)

\* line 777
GiveUp_Early(retryCount) == retryCount >= MAX_AUTO_EXECUTE_ATTEMPTS
GiveUp(retryCount) == retryCount > MAX_AUTO_EXECUTE_ATTEMPTS

\* the call a pending instance was started for
CallOfInstance(s) == StorageKey(s.name, s.cid, s.sig)

\* line 783: getPreviousExecution(functionName, extractedCallId, contentSignature)
AlreadyExecuted_Never(store, s) == FALSE
AlreadyExecuted(store, s) == getPreviousExecution(store, s.name, s.cid, s.sig)

\* line 847: setTimeout(retry, delay) - the closure keeps its retryCount
Reschedule_Drop(q, i, retryCount) == RemoveAt(q, i)
Reschedule(q, i, retryCount) == [q EXCEPT ![i].n = retryCount]

\* line 771: retryCount++
NextCount_Stuck(retryCount) == retryCount
NextCount(retryCount) == retryCount + 1

\* lines 841-843: Math.min(baseDelay * Math.pow(1.5, retryCount - 1), maxDelay).
\* Delays are counted in units of 2^-7 ms, in which the products of 150 and
\* the powers 1.5^0 .. 1.5^7 are whole numbers.
BASE_DELAY == 150
MAX_DELAY == 1000
RECURSIVE Pow(_, _)
Pow(x, n) == IF n <= 0 THEN 1 ELSE x * Pow(x, n - 1)
DelayUnit == Pow(2, MAX_AUTO_EXECUTE_ATTEMPTS - 1)
\* Math.pow(1.5, e) in delay units, for e = 0 .. 7
PowThreeHalves(e) == Pow(3, e) * Pow(2, MAX_AUTO_EXECUTE_ATTEMPTS - 1 - e)
Delay_Uncapped(retryCount) == BASE_DELAY * PowThreeHalves(retryCount - 1)
Delay(retryCount) ==
  MinOf({BASE_DELAY * PowThreeHalves(retryCount - 1), MAX_DELAY * DelayUnit})

\* retry() of lines 770-848, for the i-th pending instance; the timer set by
\* line 857 runs setupAutoExecution, which calls retry() at once.
Retry(i) ==
  /\ i \in 1..Len(scheds)
  /\ LET s == scheds[i]
         retryCount == NextCount(s.n)
         target == LocateButton(divs, s)
     IN
     /\ eval' = NoEval
     /\ UNCHANGED <<text, par, attr, proc, hidden, reg, preExisting, toggle,
                    trackerVars, storage, scanClicks, streamTimers, removals,
                    markedBy, obsVars, marks, outerVars>>
     /\ IF GiveUp(retryCount)
          THEN \* lines 777-780
               /\ scheds' = RemoveAt(scheds, i)
               /\ click' = NoClick
               /\ gaveUp' = gaveUp \cup {s.b}
               /\ UNCHANGED <<divs, activated>>
        ELSE IF AlreadyExecuted(storage, s)
          THEN \* lines 783-786
               /\ scheds' = RemoveAt(scheds, i)
               /\ click' = [by |-> "stopped", b |-> s.b, key |-> CallOfInstance(s)]
               /\ UNCHANGED <<divs, activated, gaveUp>>
        ELSE \E throws \in BOOLEAN :
               IF target # <<>> /\ divs[target[1]][target[2]].button = "ready" /\ ~throws
                 THEN \* lines 816-829
                      LET c == ClickControl(divs, executedFunctions, toggle,
                                            target[1], target[2], "retry", s.b,
                                            CallOfInstance(s))
                      IN /\ divs' = c.divs
                         /\ activated' = c.activated
                         /\ click' = c.click
                         /\ scheds' = RemoveAt(scheds, i)
                         /\ UNCHANGED gaveUp
                 ELSE \* lines 830-847
                      /\ scheds' = Reschedule(scheds, i, retryCount)
                      /\ click' = [by |-> "failed", b |-> s.b,
                                   why |-> IF target = <<>> THEN "absent"
                                           ELSE IF throws THEN "threw" ELSE "disabled",
                                   n |-> retryCount, delay |-> Delay(retryCount)]
                      /\ UNCHANGED <<divs, activated, gaveUp>>

\* ----------------------------------------------------------------- scanner
\* lines 199, 219: !button.disabled && data-auto-exec-ready !== 'false'
Clickable_Any(d) == d.button # "none"
Clickable(d) == d.button = "ready" /\ d.aer

\* autoExecuteButtonScanner (lines 179-232).  Its delayed clicks (300 ms per
\* button) all fire before the next scan (3000 ms later).
ScannerRun ==
  /\ scanClicks = {}
  /\ scanClicks' =
       IF AutoExecuteEnabled(toggle)
         THEN {[b |-> c[1], d |-> c[2], live |-> TRUE, ready |-> TRUE] :
                 c \in {x \in DocButtons(divs) : Clickable(divs[x[1]][x[2]])}}
         ELSE {}
  /\ scanClicks' # {}
  /\ Quiet
  /\ UNCHANGED <<blockVars, toggle, trackerVars, storage, scheds, streamTimers,
                 removals, histVars, obsVars, marks, outerVars>>

\* the timer callback of lines 213-226 for one scanned button
ScannerClick(c) ==
  /\ c \in scanClicks
  /\ scanClicks' = scanClicks \ {c}
  /\ eval' = NoEval
  /\ UNCHANGED <<text, par, attr, proc, hidden, reg, preExisting, toggle,
                 trackerVars, storage, scheds, streamTimers, removals, markedBy,
                 gaveUp, obsVars, marks, outerVars>>
  /\ LET stillEnabled == AutoExecuteEnabled(toggle)
         enabledButton == IF c.live THEN Clickable(divs[c.b][c.d]) ELSE c.ready
         k == ClickControl(divs, executedFunctions, toggle, c.b, c.d, "scanner", c.b,
                           divs[c.b][c.d].bkey)
     IN IF stillEnabled /\ enabledButton
          THEN /\ divs' = IF c.live THEN k.divs ELSE divs
               /\ activated' = k.activated
               /\ click' = k.click
          ELSE /\ click' = [by |-> "suppressed", b |-> c.b, flag |-> stillEnabled]
               /\ UNCHANGED <<divs, activated>>

\* the callback of the timer x of lines 1012-1020
StreamingTimeoutOf(x) ==
  /\ x \in streamTimers
  /\ streamTimers' = streamTimers \ {x}
  /\ Quiet
  /\ LET b == x[1]
         name == x[2]
         d == reg[b]
         i == ParamIndex(divs[b][d].params, name)
     IN divs' = IF d > 0 /\ divs[b][d].inDoc /\ i > 0
                  THEN [divs EXCEPT ![b][d].params[i].sc = FALSE,
                                    ![b][d].params[i].ds = FALSE]
                  ELSE divs
  /\ UNCHANGED <<text, par, attr, proc, hidden, reg, preExisting, toggle,
                 trackerVars, storage, scheds, scanClicks, removals, histVars,
                 obsVars, marks, outerVars>>

\* a pending streaming-marker timer of parameter name of block b fires
StreamingTimeout(b, name) ==
  \E x \in streamTimers : x[1] = b /\ x[2] = name /\ StreamingTimeoutOf(x)

\* ------------------------------------------------------------- environment
envFrame == <<attr, proc, hidden, reg, preExisting, trackerVars, scheds,
              streamTimers, markedBy, gaveUp, obsVars, marks, outerVars>>

\* the host page streams, replaces or truncates the text of a RawBlock
SetText(b, t) ==
  /\ Texts[t] # text[b]
  /\ text' = [text EXCEPT ![b] = Texts[t]]
  /\ Quiet
  /\ UNCHANGED <<par, divs, toggle, storage, scanClicks, removals, activated, envFrame>>

\* the host page removes the subtree that holds the RawBlock and its rendered block
Detach(b) ==
  /\ par[b]
  /\ par' = [par EXCEPT ![b] = FALSE]
  /\ divs' = [divs EXCEPT ![b] = [i \in 1..Len(@) |-> [@[i] EXCEPT !.inDoc = FALSE]]]
  /\ Quiet
  /\ UNCHANGED <<text, toggle, storage, scanClicks, removals, activated, envFrame>>

\* the host page inserts the RawBlock into the document
Attach(b) ==
  /\ ~par[b]
  /\ par' = [par EXCEPT ![b] = TRUE]
  /\ Quiet
  /\ UNCHANGED <<text, divs, toggle, storage, scanClicks, removals, activated, envFrame>>

\* the user switches the auto-execute preference
SetToggle(v) ==
  /\ v \in {"on", "off"} /\ v # toggle
  /\ toggle' = v
  /\ Quiet
  /\ UNCHANGED <<text, par, divs, storage, scanClicks, removals, activated, envFrame>>

\* a disabled action control with no call running becomes actionable
EnableControl(b, d) ==
  /\ d \in 1..Len(divs[b])
  /\ divs[b][d].button = "disabled" /\ divs[b][d].run = <<>>
  /\ divs' = [divs EXCEPT ![b][d].button = "ready"]
  /\ Quiet
  /\ UNCHANGED <<text, par, toggle, storage, scanClicks, removals, activated, envFrame>>

\* the action control of a rendered block is removed from it
RemoveControl(b, d) ==
  /\ removals < MaxRemovals
  /\ d \in 1..Len(divs[b])
  /\ divs[b][d].button # "none"
  /\ removals' = removals + 1
  /\ divs' = [divs EXCEPT ![b][d].button = "none", ![b][d].controls = @ - 1]
  /\ scanClicks' = {IF c.b = b /\ c.d = d /\ c.live
                      THEN [c EXCEPT !.live = FALSE, !.ready = Clickable(divs[b][d])]
                      ELSE c : c \in scanClicks}
  /\ Quiet
  /\ UNCHANGED <<text, par, toggle, storage, activated, envFrame>>

\* the user activates the action control of a displayed block
Manual(b, d) ==
  /\ d \in 1..Len(divs[b])
  /\ divs[b][d].inDoc /\ divs[b][d].button = "ready"
  /\ LET k == ClickControl(divs, executedFunctions, toggle, b, d, "manual", b,
                             divs[b][d].bkey)
     IN divs' = k.divs /\ activated' = k.activated /\ click' = k.click
  /\ eval' = NoEval
  /\ UNCHANGED <<text, par, toggle, storage, scanClicks, removals, envFrame>>

\* a running call returns: its execution is recorded in persistent storage
\* and the control becomes actionable again (it stays marked as processed)
CompleteExecution(b, d) ==
  /\ d \in 1..Len(divs[b])
  /\ divs[b][d].run # <<>>
  /\ storage' = storage \cup {divs[b][d].run}
  /\ divs' = [divs EXCEPT ![b][d].run = <<>>,
                          ![b][d].button = IF @ = "disabled" THEN "ready" ELSE @]
  /\ Quiet
  /\ UNCHANGED <<text, par, toggle, scanClicks, removals, activated, envFrame>>

\* --------------------------------------------------------------------- Spec
InitLoad ==
  /\ attr = [b \in Blocks |-> FALSE]
  /\ proc = [b \in Blocks |-> FALSE]
  /\ hidden = [b \in Blocks |-> FALSE]
  /\ divs = [b \in Blocks |-> <<>>]
  /\ reg = [b \in Blocks |-> 0]
  /\ preExisting \in {{}, {1}}
  /\ toggle \in {"undef", "on", "off"}
  /\ executedFunctions = {}
  /\ executedBlocks = {}
  /\ attempts = [b \in Blocks |-> 0]
  /\ storage = {}
  /\ scheds = <<>>
  /\ scanClicks = {}
  /\ streamTimers = {}
  /\ removals = 0
  /\ activated = {}
  /\ markedBy = {}
  /\ gaveUp = {}
  /\ click = NoClick
  /\ eval = NoEval
  /\ domObserver = "null"
  /\ observerEnabled = FALSE
  /\ obsTimers = <<ObsTimer("setup", LOAD_SETUP_DELAY, FALSE, FALSE, FALSE)>>
  /\ batches = 0
  /\ marks = {}
  /\ processed = [b \in Blocks |-> FALSE]
  /\ explicitOff = FALSE
  /\ isTransitioning = FALSE
  /\ sidebarTimers = <<>>
  /\ gestures = 0
  /\ isResizing = FALSE
  /\ frames = <<>>
  /\ sidebarWidth = SIDEBAR_DEFAULT_WIDTH
\* the RawBlocks are in the document
InitRest ==
  /\ par = [b \in Blocks |-> TRUE]
  /\ InitLoad

Init ==
  /\ text = [b \in Blocks |-> Texts[1]]
  /\ InitRest

\* Spec: one RawBlock and every trigger path of its action control
One == {1}
Next ==
  \/ \E b \in One : Render(b)
  \/ \E i \in DivIdx : Retry(i)
  \/ ScannerRun
  \/ \E c \in scanClicks : ScannerClick(c)
  \/ \E b \in One, t \in ExecTexts : SetText(b, t)
  \/ \E v \in {"on", "off"} : SetToggle(v)
  \/ \E b \in One, d \in DivIdx : EnableControl(b, d)
  \/ \E b \in One, d \in DivIdx : RemoveControl(b, d)
  \/ \E b \in One, d \in DivIdx : Manual(b, d)
  \/ \E b \in One, d \in DivIdx : CompleteExecution(b, d)

Spec == Init /\ [][Next]_vars

\* Spec with the timers of the retry loops firing: a timer set by line 847 or
\* line 857 runs its callback after its delay
SpecFair == Init /\ [][Next]_vars /\ WF_vars(\E i \in DivIdx : Retry(i))

\* SpecPair: two RawBlocks and their render-time schedulers
NextPair ==
  \/ \E b \in Blocks : Render(b)
  \/ \E i \in DivIdx : Retry(i)
  \/ \E b \in Blocks, t \in ExecTexts : SetText(b, t)
  \/ \E v \in {"on", "off"} : SetToggle(v)
  \/ \E b \in Blocks, d \in DivIdx : EnableControl(b, d)
  \/ \E b \in Blocks, d \in DivIdx : CompleteExecution(b, d)

SpecPair == Init /\ [][NextPair]_vars

\* SpecFallback: two RawBlocks that hold complete calls of one function
\* name, with and without call_id; the host page may remove an action control
InitFallback ==
  /\ text = [b \in Blocks |-> IF b = 1 THEN Texts[4] ELSE Texts[5]]
  /\ InitRest
  /\ preExisting = {}
  /\ toggle = "undef"
NextFallback ==
  \/ \E b \in Blocks : Render(b)
  \/ \E i \in DivIdx : Retry(i)
  \/ \E b \in Blocks, d \in DivIdx : EnableControl(b, d)
  \/ \E b \in Blocks, d \in DivIdx : RemoveControl(b, d)
  \/ \E b \in Blocks, d \in DivIdx : CompleteExecution(b, d)

SpecFallback == InitFallback /\ [][NextFallback]_vars

\* SpecRender: one RawBlock streaming through every text, detached and
\* re-inserted by the host page
NextRender ==
  \/ \E b \in One : Render(b)
  \/ \E i \in DivIdx : Retry(i)
  \/ \E b \in One, n \in ParamNames : StreamingTimeout(b, n)
  \/ \E b \in One, t \in TextIds : SetText(b, t)
  \/ \E b \in One : Detach(b)
  \/ \E b \in One : Attach(b)

SpecRender == Init /\ [][NextRender]_vars

\* --------------------------------------------------- mutation coordinator
\* Time is counted in ticks of 100 ms. A timer may fire when its remaining
\* time is 0, and time advances only when no pending timer is due.
MaxBatch == 11
MaxBatches == 2
\* line 147: index * 100 ms; line 145: 100 ms
ITEM_STAGGER == 1
REENABLE_DELAY == 1

otherVars == <<blockVars, toggle, trackerVars, storage, scheds, scanClicks,
               streamTimers, removals, histVars, click, eval, marks, outerVars>>

Due(i) == i \in 1..Len(obsTimers) /\ obsTimers[i].left = 0

\* setupDOMObserver, lines 78-161
setupDOMObserver(obs, enabled) ==
  IF obs # "null" /\ enabled
    THEN [obs |-> obs, enabled |-> enabled]
    ELSE [obs |-> "observing", enabled |-> TRUE]

\* a timer set by line 239/243 or line 864 fires
SetupFire(i) ==
  /\ Due(i) /\ obsTimers[i].kind = "setup"
  /\ LET r == setupDOMObserver(domObserver, observerEnabled)
     IN /\ domObserver' = r.obs
        /\ observerEnabled' = r.enabled
  /\ obsTimers' = RemoveAt(obsTimers, i)
  /\ UNCHANGED <<batches, otherVars>>

\* The blocks of one notification: all of them are rendered up to the tail
\* of renderFunctionCall (lines 861-868), or all of them leave it earlier
\* (lines 395, 617, 689, 695, 702, or an exception).
Shapes == {"full", "early"}
ReachesTail(shape, k) == shape = "full"

\* the observer callback of lines 89-150 for a notification that holds n
\* unprocessed blocks with a function call; an observer that is not
\* observing gets no notification
MutationCallback(n, shape) ==
  /\ domObserver = "observing"
  /\ UNCHANGED <<domObserver, otherVars>>
  /\ IF ~observerEnabled
       THEN \* line 91
            UNCHANGED <<observerEnabled, obsTimers, batches>>
       ELSE \* lines 123-149
            /\ batches < MaxBatches
            /\ observerEnabled' = FALSE
            /\ obsTimers' = obsTimers \o
                 [k \in 1..n |-> ObsTimer("item", (k - 1) * ITEM_STAGGER, k = n,
                                          observerEnabled, ReachesTail(shape, k))]
            /\ batches' = batches + 1

\* lines 133-138: try { renderFunctionCall(..) } catch - the callback goes on
\* to line 141 whether the call threw or not
RunsPastTry_Uncaught(throws) == ~throws
RunsPastTry(throws) == TRUE

\* the timer of one block of a batch fires (lines 132-147): the block is
\* rendered, and the last block of the batch sets the re-enable timer.  A
\* call of renderFunctionCall that does not reach its tail has returned
\* early or has thrown; eval keeps what the last such callback did.
ItemFire(i) ==
  /\ Due(i) /\ obsTimers[i].kind = "item"
  /\ \E throws \in (IF obsTimers[i].tail THEN {FALSE} ELSE BOOLEAN) :
       LET tl == IF obsTimers[i].tail
                   THEN RenderTail(domObserver, RemoveAt(obsTimers, i))
                   ELSE [obs |-> domObserver, timers |-> RemoveAt(obsTimers, i)]
       IN /\ domObserver' = tl.obs
          /\ obsTimers' = IF obsTimers[i].last /\ RunsPastTry(throws)
                            THEN Append(tl.timers,
                                        ObsTimer("reenable", REENABLE_DELAY, FALSE,
                                                 obsTimers[i].status, FALSE))
                            ELSE tl.timers
          /\ eval' = [out |-> "item", threw |-> throws, last |-> obsTimers[i].last]
  /\ UNCHANGED <<observerEnabled, batches, blockVars, toggle, trackerVars, storage,
                 scheds, scanClicks, streamTimers, removals, histVars, click, marks,
                 outerVars>>

\* lines 142-145
ReenableFire(i) ==
  /\ Due(i) /\ obsTimers[i].kind = "reenable"
  /\ observerEnabled' = obsTimers[i].status
  /\ obsTimers' = RemoveAt(obsTimers, i)
  /\ UNCHANGED <<domObserver, batches, otherVars>>

\* 100 ms pass
Tick ==
  /\ obsTimers # <<>>
  /\ \A i \in 1..Len(obsTimers) : obsTimers[i].left > 0
  /\ obsTimers' = [i \in 1..Len(obsTimers) |-> [obsTimers[i] EXCEPT !.left = @ - 1]]
  /\ UNCHANGED <<domObserver, observerEnabled, batches, otherVars>>

\* SpecObs: the mutation coordinator and its timers
TimerIdx == 1..(MaxBatches * (MaxBatch + 2) + 1)
NextObs ==
  \/ \E n \in 1..MaxBatch, shape \in Shapes : MutationCallback(n, shape)
  \/ \E i \in TimerIdx : SetupFire(i)
  \/ \E i \in TimerIdx : ItemFire(i)
  \/ \E i \in TimerIdx : ReenableFire(i)
  \/ Tick
InitObs == Init /\ preExisting = {} /\ toggle = "undef"
SpecObs == InitObs /\ [][NextObs]_vars

\* ------------------------------------------------------------- SpecSwitch
switchFrame == <<domObserver, obsTimers, batches, blockVars, toggle, trackerVars,
                 storage, scheds, scanClicks, streamTimers, removals, histVars,
                 click, eval, marks, processed, sidebarVars>>

\* enableDOMObserver(), lines 164-167
enableDOMObserver ==
  /\ observerEnabled' = TRUE
  /\ explicitOff' = FALSE
  /\ UNCHANGED switchFrame

\* disableDOMObserver(), lines 169-172
disableDOMObserver ==
  /\ observerEnabled' = FALSE
  /\ explicitOff' = TRUE
  /\ UNCHANGED switchFrame

\* SpecSwitch: the mutation coordinator of SpecObs, switched on and off by
\* the callers of enableDOMObserver and disableDOMObserver
NextSwitch ==
  \/ NextObs
  \/ enableDOMObserver
  \/ disableDOMObserver
SpecSwitch == InitObs /\ [][NextSwitch]_vars

\* ----------------------------------------------------------- SpecDiscover
\* how the host page inserts RawBlocks: as descendants of the inserted
\* element, or as the inserted elements themselves
InsertShapes == {"inside", "self"}

\* lines 99-117: querySelectorAll('pre:not([data-processed])') on an inserted
\* element finds its descendants, not the element itself
FoundBlocks(S, shape) == IF shape = "inside" THEN {b \in S : ~processed[b]} ELSE {}
\* lines 112-115
BlocksToProcess(S, shape) ==
  {b \in FoundBlocks(S, shape) : ~proc[b] /\ Scan(text[b]).has}

RECURSIVE InOrder(_)
InOrder(S) == IF S = {} THEN <<>>
              ELSE LET m == CHOOSE x \in S : \A y \in S : x <= y
                   IN <<m>> \o InOrder(S \ {m})

\* lines 131-148: one timer per block, index * 100 ms apart
ItemTimers(q, status) ==
  [k \in 1..Len(q) |->
     [kind |-> "item", left |-> (k - 1) * ITEM_STAGGER, last |-> k = Len(q),
      status |-> status, tail |-> TRUE, b |-> q[k]]]

\* the host page inserts the RawBlocks S while the observer is connected,
\* and the observer callback of lines 89-150 runs on the notification
InsertBlocks(S, shape) ==
  /\ S # {}
  /\ \A b \in S : ~par[b]
  /\ domObserver = "observing"
  /\ par' = [b \in Blocks |-> par[b] \/ b \in S]
  /\ Quiet
  /\ UNCHANGED <<text, attr, proc, hidden, divs, reg, preExisting, toggle, trackerVars,
                 storage, scheds, scanClicks, streamTimers, removals, histVars,
                 domObserver, marks, explicitOff, sidebarVars>>
  /\ IF ~observerEnabled
       THEN \* line 91
            UNCHANGED <<processed, observerEnabled, obsTimers, batches>>
       ELSE /\ processed' = [b \in Blocks |-> processed[b] \/ b \in FoundBlocks(S, shape)]
            /\ \E q \in {InOrder(BlocksToProcess(S, shape))} :
                 IF q = <<>>
                   THEN UNCHANGED <<observerEnabled, obsTimers, batches>>
                   ELSE \* lines 123-149
                        /\ observerEnabled' = FALSE
                        /\ obsTimers' = obsTimers \o ItemTimers(q, observerEnabled)
                        /\ batches' = batches + 1

\* the timer of one queued block fires (lines 132-147): the block is rendered
\* inside try/catch, and the last block of the batch sets the re-enable timer
BlockFire(i) ==
  /\ Due(i) /\ obsTimers[i].kind = "item"
  /\ RenderWith(obsTimers[i].b, RemoveAt(obsTimers, i),
                IF obsTimers[i].last
                  THEN <<ObsTimer("reenable", REENABLE_DELAY, FALSE,
                                  obsTimers[i].status, FALSE)>>
                  ELSE <<>>)

\* the directive streams into the text of a RawBlock: text nodes are added,
\* which the callback skips (line 98)
StreamIn(b) ==
  /\ text[b] = Texts[1]
  /\ SetText(b, 4)

\* SpecDiscover: RawBlocks are inserted and filled while the coordinator runs
DiscoverTimerIdx == 1..(Cardinality(Blocks) + 2)
NextDiscover ==
  \/ \E S \in SUBSET Blocks, shape \in InsertShapes : InsertBlocks(S, shape)
  \/ \E b \in Blocks : StreamIn(b)
  \/ \E i \in DiscoverTimerIdx : BlockFire(i)
  \/ \E i \in DiscoverTimerIdx : SetupFire(i)
  \/ \E i \in DiscoverTimerIdx : ReenableFire(i)
  \/ Tick
InitDiscover ==
  /\ text \in [Blocks -> {Texts[1], Texts[3], Texts[4]}]
  /\ par = [b \in Blocks |-> FALSE]
  /\ InitLoad
  /\ preExisting = {}
  /\ toggle = "off"
SpecDiscover == InitDiscover /\ [][NextDiscover]_vars
\* a timer of a queued block is due: BlockFire is enabled
BlockDue == \E i \in DOMAIN obsTimers : Due(i) /\ obsTimers[i].kind = "item"
\* due timers fire and time passes.  BlockFire is enabled exactly when
\* BlockDue holds and fires finitely often (a block is inserted once), so its
\* weak fairness is []<>~BlockDue.
SpecDiscoverFair ==
  /\ SpecDiscover
  /\ []<>~BlockDue
  /\ WF_vars(\E i \in DiscoverTimerIdx : SetupFire(i))
  /\ WF_vars(\E i \in DiscoverTimerIdx : ReenableFire(i))
  /\ WF_vars(Tick)

\* ------------------------------------------------------------ SpecParse
\* The texts of SpecParse.  A parameter value is plain text or a CDATA
\* section, which may hold markup and may have whitespace around it.
ParamValues ==
  { <<"h">>, <<" ", "h", " ">>,
    <<CdataOpen, "h", CdataEnd>>,
    <<CdataOpen, " ", "h", " ", CdataEnd>>,
    <<" ", CdataOpen, "h", CdataEnd>>,
    <<CdataOpen, "h", CdataEnd, " ">>,
    <<CdataOpen, ParamOpenR, CdataEnd>>,
    <<CdataOpen, ParamEnd, CdataEnd>> }
Prefixes(v) == {SubSeq(v, 1, k) : k \in 0..Len(v)}
CallHead == <<FunctionCallsOpen, InvokeWithId>>
CallTail == <<InvokeEnd, FunctionCallsEnd>>
Closed(opener, v) == <<opener>> \o v \o <<ParamEnd>>
\* no, or one, complete parameter q
Earlier == {<<>>} \cup {Closed(ParamOpenQ, v) : v \in ParamValues}
\* a call that is still streaming its last parameter
StreamingTexts ==
  {CallHead \o e \o <<ParamOpenR>> \o pre :
     e \in Earlier, pre \in UNION {Prefixes(v) : v \in ParamValues}}
\* a complete call with one or two parameters
CompleteTexts ==
  {CallHead \o e \o Closed(ParamOpenR, v) \o CallTail : e \in Earlier, v \in ParamValues}
\* a call whose closing call tag, or whose closing parameter tag, is missing
UnclosedTexts ==
  {CallHead \o e \o Closed(ParamOpenR, v) \o <<InvokeEnd>> :
     e \in Earlier, v \in {<<"h">>}}
  \cup {CallHead \o e \o <<ParamOpenR>> \o v \o CallTail : e \in Earlier, v \in {<<"h">>}}
ParseInputs == StreamingTexts \cup CompleteTexts \cup UnclosedTexts

InitParse ==
  /\ \E raw \in ParseInputs : text = [b \in Blocks |-> IF b = 1 THEN raw ELSE Texts[1]]
  /\ InitRest
NextParse ==
  \/ \E b \in One : Render(b)
  \/ \E b \in One, n \in ParamNames : StreamingTimeout(b, n)
SpecParse == InitParse /\ [][NextParse]_vars


\* ------------------------------------------------------------- SpecStream
\* The texts of SpecStream: a call whose parameters q and r stream in, and a
\* call that starts with r.
StreamTexts ==
  << <<FunctionCallsOpen, InvokeWithId, ParamOpenQ, "h">>,
     <<FunctionCallsOpen, InvokeWithId, ParamOpenQ, "h", "i", ParamEnd>>,
     <<FunctionCallsOpen, InvokeWithId, ParamOpenQ, "h", "i", ParamEnd, ParamOpenR, "h">>,
     <<FunctionCallsOpen, InvokeWithId, ParamOpenQ, "h", "i", ParamEnd, ParamOpenR, "h",
       ParamEnd, InvokeEnd, FunctionCallsEnd>>,
     <<FunctionCallsOpen, InvokeWithId, ParamOpenR, "i">> >>

\* the host page streams, replaces or truncates the text of a RawBlock
SetStreamText(b, k) ==
  /\ StreamTexts[k] # text[b]
  /\ text' = [text EXCEPT ![b] = StreamTexts[k]]
  /\ Quiet
  /\ UNCHANGED <<par, divs, toggle, storage, scanClicks, removals, activated, envFrame>>

\* a second passes in which no streaming-marker timer is due
StreamTick ==
  /\ streamTimers # {}
  /\ \A x \in streamTimers : x[3] > 0
  /\ streamTimers' = {<<x[1], x[2], x[3] - 1>> : x \in streamTimers}
  /\ Quiet
  /\ UNCHANGED <<blockVars, toggle, trackerVars, storage, scheds, scanClicks,
                 removals, histVars, obsVars, marks, outerVars>>

\* SpecStream: one RawBlock whose parameters stream in, on a clock of
\* seconds; a streaming-marker timer fires when its time is up
NextStream ==
  \/ \E b \in One : Render(b)
  \/ \E x \in streamTimers : x[3] = 0 /\ StreamingTimeoutOf(x)
  \/ \E b \in One, k \in 1..Len(StreamTexts) : SetStreamText(b, k)
  \/ StreamTick
  \/ \E b \in One : Detach(b)
  \/ \E b \in One : Attach(b)

SpecStream == Init /\ [][NextStream]_vars

\* --------------------------------------------------------------- SpecGrow
\* The text of a RawBlock as it streams in.  A stream is the sequence of
\* the texts that successive scans can see, each a prefix (character by
\* character) of the next: a closing tag or a CDATA terminator arrives in
\* pieces, so a text can end with the first characters of it.
PartialParamEnd == "</param"
PartialCdataEnd == "]]"
GrowHead == <<FunctionCallsOpen, InvokeWithId, ParamOpenQ>>
Streams ==
  << << GrowHead \o <<"h">>,
        GrowHead \o <<"h", "i">>,
        GrowHead \o <<"h", "i", PartialParamEnd>>,
        GrowHead \o <<"h", "i", ParamEnd>>,
        GrowHead \o <<"h", "i", ParamEnd, InvokeEnd, FunctionCallsEnd>> >>,
     << GrowHead \o <<CdataOpen>>,
        GrowHead \o <<CdataOpen, "h">>,
        GrowHead \o <<CdataOpen, "h", PartialCdataEnd>>,
        GrowHead \o <<CdataOpen, "h", CdataEnd>>,
        GrowHead \o <<CdataOpen, "h", CdataEnd, ParamEnd>>,
        GrowHead \o <<CdataOpen, "h", CdataEnd, ParamEnd, InvokeEnd, FunctionCallsEnd>> >>,
     << GrowHead \o <<"h", " ">>,
        GrowHead \o <<"h", " ", "i">>,
        GrowHead \o <<"h", " ", "i", " ">>,
        GrowHead \o <<"h", " ", "i", " ", ParamEnd>>,
        GrowHead \o <<"h", " ", "i", " ", ParamEnd, ParamOpenR, "h">>,
        GrowHead \o <<"h", " ", "i", " ", ParamEnd, ParamOpenR, "h", ParamEnd, InvokeEnd,
                      FunctionCallsEnd>> >> >>

\* more of the text of a RawBlock has arrived
GrowText(b) ==
  /\ \E s \in 1..Len(Streams) : \E k, k2 \in 1..Len(Streams[s]) :
       /\ k < k2
       /\ text[b] = Streams[s][k]
       /\ text' = [text EXCEPT ![b] = Streams[s][k2]]
  /\ Quiet
  /\ UNCHANGED <<par, divs, toggle, storage, scanClicks, removals, activated, envFrame>>

InitGrow ==
  /\ \E s \in 1..Len(Streams) :
       text = [b \in Blocks |-> IF b \in One THEN Streams[s][1] ELSE Texts[1]]
  /\ InitRest
NextGrow ==
  \/ \E b \in One : Render(b)
  \/ \E b \in One : GrowText(b)
  \/ \E b \in One, n \in ParamNames : StreamingTimeout(b, n)
SpecGrow == InitGrow /\ [][NextGrow]_vars

\* --------------------------------------------------------------- SpecLedger
\* The execution tracker called through its interface, next to one block
\* that is rendered and retried.  The arguments are drawn from small sets
\* that hold a call id with the separator ':' in it and the function names
\* a caller can pass: none, the empty string, a blank string, a name.
LedgerCallIds == {<<"c">>, <<"a", ":", "b">>}
LedgerSigs == {<<"x">>}
LedgerNames == {Undefined, NoStr, <<" ">>, <<"s">>}
\* how many records persistent storage takes from other pages
MaxRecords == 1
\* how often incrementAttempts is called for one block
MaxIncrements == 1

ledgerFrame == <<blockVars, toggle, scheds, scanClicks, streamTimers, removals,
                 histVars, obsVars, outerVars>>

\* executionTracker.markFunctionExecuted(callId, contentSignature, functionName)
MarkFunctionExecuted(callId, sig, name) ==
  /\ executedFunctions' = markFunctionExecuted(executedFunctions, callId, sig, name)
  /\ click' = NoClick
  /\ eval' = [out |-> "mark", callId |-> callId, sig |-> sig, name |-> name,
              had |-> (MarkKey(callId, sig, name) \in executedFunctions)]
  /\ UNCHANGED <<executedBlocks, attempts, storage, ledgerFrame>>

\* executionTracker.isFunctionExecuted(callId, contentSignature, functionName)
IsFunctionExecuted(callId, sig, name) ==
  /\ click' = NoClick
  /\ eval' = [out |-> "lookup",
              found |-> isFunctionExecuted(executedFunctions, storage, callId, sig, name)]
  /\ UNCHANGED <<trackerVars, storage, marks, ledgerFrame>>

\* executionTracker.markBlockExecuted(blockId)
MarkBlockExecuted(b) ==
  /\ executedBlocks' = executedBlocks \cup {b}
  /\ Quiet
  /\ UNCHANGED <<executedFunctions, attempts, storage, marks, ledgerFrame>>

\* executionTracker.incrementAttempts(blockId)
IncrementAttempts(b) ==
  /\ attempts[b] < MaxIncrements
  /\ attempts' = [attempts EXCEPT ![b] = @ + 1]
  /\ Quiet
  /\ UNCHANGED <<executedFunctions, executedBlocks, storage, marks, ledgerFrame>>

\* executionTracker.cleanupBlock(blockId): attempts.delete(blockId)
CleanupBlock_Clear(b) ==
  /\ attempts' = [attempts EXCEPT ![b] = 0]
  /\ executedFunctions' = {}
  /\ Quiet
  /\ UNCHANGED <<executedBlocks, storage, marks, ledgerFrame>>
CleanupBlock(b) ==
  /\ attempts' = [attempts EXCEPT ![b] = 0]
  /\ Quiet
  /\ UNCHANGED <<executedFunctions, executedBlocks, storage, marks, ledgerFrame>>

\* another page of the same origin records an execution in persistent
\* storage, with the function name or (legacy record) without it
StoreRecord(callId, sig, name) ==
  /\ Cardinality(storage) < MaxRecords
  /\ StorageKey(name, callId, sig) \notin storage
  /\ storage' = storage \cup {StorageKey(name, callId, sig)}
  /\ Quiet
  /\ UNCHANGED <<trackerVars, marks, ledgerFrame>>

InitLedger ==
  /\ text = [b \in Blocks |-> IF b \in One THEN Texts[4] ELSE Texts[1]]
  /\ InitRest
  /\ preExisting = {}
  /\ toggle = "undef"

NextLedger ==
  \/ \E c \in LedgerCallIds, g \in LedgerSigs, n \in LedgerNames :
       MarkFunctionExecuted(c, g, n) /\ UNCHANGED marks
  \/ \E c \in LedgerCallIds, g \in LedgerSigs, n \in LedgerNames :
       IsFunctionExecuted(c, g, n)
  \/ \E b \in One : MarkBlockExecuted(b)
  \/ \E b \in One : IncrementAttempts(b)
  \/ \E b \in One : CleanupBlock(b)
  \/ \E c \in LedgerCallIds, g \in LedgerSigs, n \in LedgerNames \ {NoStr, <<" ">>} :
       StoreRecord(c, g, n)
  \/ \E b \in One : Render(b)
  \/ \E i \in DivIdx : Retry(i)

SpecLedger == InitLedger /\ [][NextLedger]_vars

\* ------------------------------------------------------------- SpecSidebar
\* the sidebar component on a 100 ms clock
MaxGestures == 3
\* part_000 line 326: 500 ms; line 385: 200 ms
TRANSITION_DELAY == 5
RESIZE_DELAY == 2
\* the widths a resize event reports
Widths == {300, 400}

sidebarFrame == <<domObserver, observerEnabled, obsTimers, batches, blockVars,
                  toggle, trackerVars, storage, scheds, scanClicks, streamTimers,
                  removals, histVars, click, eval, marks, processed, explicitOff>>

\* if (transitionTimerRef.current !== null) clearTimeout(transitionTimerRef.current)
ClearTimeout(ts) == SelectSeq(ts, LAMBDA t : ~t.held)
\* transitionTimerRef.current = window.setTimeout(callback, left)
SetTimeout(ts, kind, left) ==
  Append([i \in 1..Len(ts) |-> [ts[i] EXCEPT !.held = FALSE]],
         [kind |-> kind, left |-> left, held |-> TRUE])

\* startTransition(), lines 314-327
startTransition ==
  /\ isTransitioning' = TRUE
  /\ sidebarTimers' = SetTimeout(ClearTimeout(sidebarTimers), "transition", TRANSITION_DELAY)

\* toggleMinimize, lines 329-338 (not dragging); isMinimized changes, so the
\* effect of lines 215-250 runs and resets isResizingRef (line 249)
toggleMinimize ==
  /\ gestures < MaxGestures
  /\ gestures' = gestures + 1
  /\ startTransition
  /\ isResizing' = FALSE
  /\ UNCHANGED <<frames, sidebarWidth, sidebarFrame>>

\* handleResize(width), lines 340-392, in a browser (requestAnimationFrame
\* exists): the state update waits for the next frame
handleResize(width) ==
  /\ gestures < MaxGestures
  /\ gestures' = gestures + 1
  /\ isResizing' = TRUE
  /\ frames' = Append(frames, IF width > SIDEBAR_DEFAULT_WIDTH THEN width
                                                              ELSE SIDEBAR_DEFAULT_WIDTH)
  /\ UNCHANGED <<isTransitioning, sidebarTimers, sidebarWidth, sidebarFrame>>

\* the requestAnimationFrame callback, lines 368-386; a changed width runs
\* the effect of lines 215-250 (line 249)
ResizeFrame ==
  /\ frames # <<>>
  /\ frames' = Tail(frames)
  /\ sidebarWidth' = Head(frames)
  /\ isResizing' = IF Head(frames) # sidebarWidth THEN FALSE ELSE isResizing
  /\ sidebarTimers' = SetTimeout(ClearTimeout(sidebarTimers), "resize", RESIZE_DELAY)
  /\ UNCHANGED <<isTransitioning, gestures, sidebarFrame>>

\* a due timeout runs its callback: lines 323-326 or lines 376-385
SidebarTimeout(i) ==
  /\ i \in DOMAIN sidebarTimers
  /\ sidebarTimers[i].left = 0
  /\ IF sidebarTimers[i].kind = "transition"
       THEN isTransitioning' = FALSE /\ UNCHANGED isResizing
       ELSE isResizing' = FALSE /\ UNCHANGED isTransitioning
  /\ sidebarTimers' = [j \in 1..(Len(sidebarTimers) - 1) |->
                         [sidebarTimers[IF j < i THEN j ELSE j + 1] EXCEPT !.held = FALSE]]
  /\ UNCHANGED <<gestures, frames, sidebarWidth, sidebarFrame>>

\* 100 ms pass
SidebarTick ==
  /\ sidebarTimers # <<>>
  /\ \A i \in DOMAIN sidebarTimers : sidebarTimers[i].left > 0
  /\ sidebarTimers' = [i \in DOMAIN sidebarTimers |-> [sidebarTimers[i] EXCEPT !.left = @ - 1]]
  /\ UNCHANGED <<isTransitioning, gestures, isResizing, frames, sidebarWidth, sidebarFrame>>

SidebarTimerIdx == 1..MaxGestures
NextSidebar ==
  \/ toggleMinimize
  \/ \E w \in Widths : handleResize(w)
  \/ ResizeFrame
  \/ \E i \in SidebarTimerIdx : SidebarTimeout(i)
  \/ SidebarTick
InitSidebar == InitObs
SpecSidebar == InitSidebar /\ [][NextSidebar]_vars
\* the browser runs due timeouts and animation frames, and time passes
SpecSidebarFair ==
  /\ SpecSidebar
  /\ WF_vars(ResizeFrame)
  /\ WF_vars(\E i \in SidebarTimerIdx : SidebarTimeout(i))
  /\ WF_vars(SidebarTick)

\* --------------------------------------------------------------- SpecAlias
\* The tracker marked and looked up with call ids and function names that
\* hold the separator ':' or are a part of such a string; marks keeps the
\* calls that were marked.
AliasCallIds == {<<"b">>, <<"a", ":", "b">>}
AliasNames == {Undefined, <<"a">>, <<"s">>}
NextAlias ==
  \/ \E c \in AliasCallIds, g \in LedgerSigs, n \in AliasNames :
       MarkFunctionExecuted(c, g, n) /\ marks' = marks \cup {<<c, g, n>>}
  \/ \E c \in AliasCallIds, g \in LedgerSigs, n \in AliasNames :
       IsFunctionExecuted(c, g, n)
  \/ \E c \in AliasCallIds, g \in LedgerSigs, n \in AliasNames :
       StoreRecord(c, g, n)

SpecAlias == InitLedger /\ [][NextAlias]_vars

\* ============================================================== properties
SchedulerPaths == {"direct", "retry"}
AutomaticPaths == {"direct", "retry", "scanner"}
LedgerKeyOf(key) == MarkKey(key[2], key[3], key[1])
Pending(b) == \E i \in 1..Len(scheds) : scheds[i].b = b
HasControl(b) == reg[b] # 0 /\ divs[b][reg[b]].button # "none"

\* C1: at-most-once execution - whenever an automatic trigger path (direct
\* attempt, retry attempt, periodic scanner) activates an action control,
\* the call bound to it (function name, call id, signature) has not been
\* activated before, by whichever path and on whichever block.
C1_AtMostOnce == click.by \in AutomaticPaths => ~click.again

\* C2: when the scheduler evaluation of a block finds that the Ledger key of
\* its call was already marked by the scheduler of another block, it stops:
\* it neither activates the control nor starts a retry loop.
C2_IdenticalCallsCollapse ==
  (eval.out # "none" /\ eval.other) => eval.out \in {"storage", "disabled", "busy"}

\* C3: mark-before-execute - every activation dispatched by a scheduler
\* (direct or retry attempt) finds the Ledger key of the call that scheduler
\* was started for in the Ledger, and the turn that passes the executed-check
\* ends with that key marked.
C3_MarkBeforeExecute ==
  /\ click.by \in SchedulerPaths => click.marked
  /\ eval.out \in SchedulerPaths => LedgerKeyOf(eval.key) \in executedFunctions

C3_Witness == click.by = "retry" /\ click.marked

\* C4 as stated: once a retry loop has made 8 failed attempts, none of its
\* timers is pending.
C4_NoTimerAfterEightFailures ==
  \A i \in 1..Len(scheds) : scheds[i].n < MAX_AUTO_EXECUTE_ATTEMPTS

\* C4 amended: a retry loop never makes more than 8 attempts; after the 8th
\* failed attempt one more timer is pending, and the call of retry it makes
\* gives up - no control is activated or changed, no timer is set and the
\* block stays registered; a loop gives up only there.
C4_RetryCeiling ==
  /\ [](\A i \in 1..Len(scheds) : scheds[i].n <= MAX_AUTO_EXECUTE_ATTEMPTS)
  /\ [][\A i \in 1..Len(scheds) :
          (scheds[i].n = MAX_AUTO_EXECUTE_ATTEMPTS /\ Retry(i)) =>
            /\ scheds' = RemoveAt(scheds, i)
            /\ divs' = divs /\ reg' = reg /\ click' = NoClick]_vars
  /\ [][gaveUp' # gaveUp =>
          \E i \in 1..Len(scheds) :
            scheds[i].n = MAX_AUTO_EXECUTE_ATTEMPTS /\ scheds' = RemoveAt(scheds, i)]_vars

C4_Witness ==
  \E b \in gaveUp :
    /\ ~Pending(b) /\ HasControl(b) /\ divs[b][reg[b]].inDoc
    /\ \A a \in activated : a[1] # b

\* C5: a scheduler evaluation that finds the auto-execute flag disabled leaves
\* the action control in place, marks nothing in the Ledger, starts no retry
\* loop and activates nothing; and no activation by the direct attempt or by
\* the periodic scanner happens while the flag is disabled.
C5_DisabledNoScheduler ==
  /\ [](eval.out = "disabled" => (~eval.flag /\ click = NoClick /\ HasControl(eval.b)))
  /\ [][(eval'.out # "none" /\ ~eval'.flag) =>
          /\ eval'.out \in {"storage", "disabled"}
          /\ executedFunctions' = executedFunctions
          /\ executedBlocks' = executedBlocks
          /\ scheds' = scheds
          /\ click' = NoClick]_vars
  /\ [](click.by \in {"direct", "scanner"} => click.flag)

C5_Witness ==
  /\ eval.out = "disabled" /\ toggle = "off"
  /\ divs[eval.b][reg[eval.b]].button = "ready"
  /\ executedFunctions = {} /\ scheds = <<>>

\* C6: every activation dispatched by a scheduler (direct attempt or retry
\* attempt) happens while the auto-execute flag is enabled.
C6_FlagReadFresh == click.by \in SchedulerPaths => click.flag

\* C7: the document never holds two rendered blocks with the same block
\* identifier, and a scan of a block that is already registered creates no
\* new rendered block.
C7_OneRenderedBlock ==
  /\ [](\A b \in Blocks : Cardinality({i \in 1..Len(divs[b]) : divs[b][i].inDoc}) <= 1)
  /\ [][\A b \in Blocks : reg[b] # 0 => Len(divs'[b]) = Len(divs[b])]_vars

\* a block that was re-scanned after its first render (only a re-scan sets
\* the complete class)
C7_Witness ==
  \E b \in Blocks : reg[b] # 0 /\ divs[b][reg[b]].inDoc /\ divs[b][reg[b]].completec

\* the nodes of a rendered block: name labels, call-id badges, the parameter
\* names of its name/value pairs, raw-content toggles, action control
NodesOf(d) ==
  [names |-> d.names, badges |-> d.badges,
   params |-> [i \in 1..Len(d.params) |-> d.params[i].n],
   toggles |-> d.toggles, control |-> (d.button # "none")]

CurrentDiv(b) == IF reg[b] = 0 THEN NewDiv ELSE divs[b][reg[b]]

\* the rendered block a call of renderFunctionCall on block b would leave
AfterRender(t, s, cur) ==
  LET WithControl(d5) ==
        IF t.complete /\ d5.button = "none" THEN [d5 EXCEPT !.button = "ready"] ELSE d5
  IN IF ~t.has THEN cur
     ELSE IF s.failed THEN s.div
     ELSE WithControl(RenderButtons(s.div, t))
RenderAgain(b) ==
  CHOOSE d \in {AfterRender(t, SubtreeOf(b, t, ExistingDiv(b)), CurrentDiv(b)) :
                  t \in {Scan(text[b])}} : TRUE

\* C8: render idempotence - right after a call of renderFunctionCall on a
\* RawBlock, a second call on the unchanged block would leave the rendered
\* block with the same nodes.
C8_RenderIdempotent ==
  [][\A b \in Blocks : Render(b) => (NodesOf(RenderAgain(b)) = NodesOf(CurrentDiv(b)))']_vars

\* a batch is in its window: one of its blocks is still to be processed, or
\* its re-enable timer is pending
BatchOpen == \E i \in 1..Len(obsTimers) : obsTimers[i].kind \in {"item", "reenable"}
OpenBatches ==
  Cardinality({i \in 1..Len(obsTimers) :
                 \/ obsTimers[i].kind = "reenable"
                 \/ (obsTimers[i].kind = "item" /\ obsTimers[i].last)})

\* C9: self-suppression window - while a batch is in its window (from its
\* discovery until its re-enable timer fires) the coordinator is disabled
\* and no second batch is in progress.
C9_SelfSuppression == BatchOpen => (~observerEnabled /\ OpenBatches = 1)

\* C10: re-arm after a batch - once a batch has been processed and no timer
\* of the coordinator is pending any more, the coordinator is enabled and
\* its observer is observing the document.
C10_RearmAfterBatch ==
  (batches > 0 /\ obsTimers = <<>>) => (observerEnabled /\ domObserver = "observing")

\* ------------------------------------------------------- parser properties
\* The parameters of a raw text read as markup: a CDATA section runs to its
\* terminator whatever it holds, a parameter runs from its opener to the
\* next closing tag outside a CDATA section.  seg is the text between the
\* two; ok is FALSE when a tag stands where parameter text is expected.
RECURSIVE Walk(_, _, _, _, _)
Walk(raw, i, mode, ps, ok) ==
  IF i > Len(raw) THEN [ps |-> ps, ok |-> ok]
  ELSE IF mode = "out"
    THEN IF raw[i] \in ParamOpeners
           THEN Walk(raw, i + 1, "in",
                     Append(ps, [n |-> OpenerName(raw[i]), seg |-> <<>>, open |-> TRUE]), ok)
           ELSE Walk(raw, i + 1, "out", ps, ok /\ raw[i] # ParamEnd)
  ELSE IF mode = "in" /\ raw[i] = ParamEnd
    THEN Walk(raw, i + 1, "out", [ps EXCEPT ![Len(ps)].open = FALSE], ok)
  ELSE Walk(raw, i + 1,
            IF mode = "in" /\ raw[i] = CdataOpen THEN "cd"
            ELSE IF mode = "cd" /\ raw[i] = CdataEnd THEN "in"
            ELSE mode,
            [ps EXCEPT ![Len(ps)].seg = Append(@, raw[i])],
            ok /\ (mode = "cd"
                   \/ raw[i] \notin ParamOpeners \cup {InvokeEnd, FunctionCallsEnd}))
Markup(raw) == Walk(TrimWs(raw), 1, "out", <<>>, TRUE)

SameNames(w, e) ==
  Len(e) = Len(w.ps) /\ \A k \in 1..Len(e) : e[k].n = w.ps[k].n

\* C11: streaming parameter extraction - when the text of a block is a
\* prefix of a well-formed call that ends inside a parameter, the extractor
\* returns the parameters of the call in document order, marks the last one
\* and no other as streaming, and returns for each the value of its text.
StreamingAgree(w, e) ==
  (w.ok /\ w.ps # <<>> /\ w.ps[Len(w.ps)].open) =>
    /\ SameNames(w, e)
    /\ \A k \in 1..Len(e) :
         /\ e[k].open = (k = Len(e))
         /\ e[k].v = CdataOrTrim(w.ps[k].seg)
C11_StreamingExtraction ==
  \A b \in Blocks : StreamingAgree(Markup(text[b]), Scan(text[b]).ps)

\* C12: missing closing tags - a rendered block whose text holds the call
\* directive but lacks the closing call tag, or the closing tag of a
\* parameter, was scanned as incomplete, has no action control and no
\* scheduler, and no scheduler evaluation ran for it.
LacksClosing(raw, w) ==
  /\ Has(raw, FunctionCallsOpen)
  /\ \/ ~Has(raw, FunctionCallsEnd)
     \/ ~w.ok
     \/ \E k \in 1..Len(w.ps) : w.ps[k].open
C12_MissingClosingTags ==
  \A b \in Blocks :
    (reg[b] # 0 /\ LacksClosing(text[b], Markup(text[b]))) =>
      /\ ~Scan(text[b]).complete
      /\ ~HasControl(b)
      /\ ~Pending(b)
      /\ (eval.out # "none" => eval.b # b)

\* C13: CDATA handling - the value extracted for a complete parameter that
\* is wrapped in a CDATA section is the inner text of the section, and the
\* value of a parameter without CDATA is its text without leading and
\* trailing whitespace.
Wrapped(str) ==
  /\ Len(str) >= 2 /\ str[1] = CdataOpen /\ str[Len(str)] = CdataEnd
  /\ \A j \in 2..(Len(str) - 1) : str[j] # CdataEnd
InnerText(str) == SubSeq(str, 2, Len(str) - 1)
ValuesAgree(w, e) ==
  (w.ok /\ SameNames(w, e)) =>
    \A k \in 1..Len(e) :
      ~w.ps[k].open =>
        /\ Wrapped(TrimWs(w.ps[k].seg)) => e[k].v = InnerText(TrimWs(w.ps[k].seg))
        /\ ~Has(w.ps[k].seg, CdataOpen) => e[k].v = TrimWs(w.ps[k].seg)
C13_CdataHandling ==
  \A b \in Blocks : ValuesAgree(Markup(text[b]), Scan(text[b]).ps)

\* ------------------------------------------------------- ledger properties
LedgerArgs == LedgerCallIds \X LedgerSigs \X LedgerNames

\* C14: ledger lookup finds what was marked - right after
\* markFunctionExecuted(callId, signature, name), isFunctionExecuted is true
\* for the same callId and signature with the same name and with the name
\* omitted; and whenever persistent storage holds the record of a key,
\* isFunctionExecuted is true for it, whatever the in-process set holds.
C14_LookupFindsMarked ==
  /\ eval.out = "mark" =>
       /\ isFunctionExecuted(executedFunctions, storage, eval.callId, eval.sig, eval.name)
       /\ isFunctionExecuted(executedFunctions, storage, eval.callId, eval.sig, Undefined)
  /\ \A a \in LedgerArgs :
       StorageKey(a[3], a[1], a[2]) \in storage =>
         isFunctionExecuted(executedFunctions, storage, a[1], a[2], a[3])

\* C15: the in-process Ledger set only grows - no step of the tracker
\* interface or of the render and retry path removes a key from
\* executedFunctions, and marking a key that is already in the set leaves
\* the set as it was.
C15_LedgerOnlyGrows ==
  [][/\ executedFunctions \subseteq executedFunctions'
     /\ (eval'.out = "mark" /\ eval'.had) => executedFunctions' = executedFunctions]_vars
\* a key was marked a second time, in a set that also holds the key the
\* scheduler of the rendered block marked
C15_Witness ==
  /\ eval.out = "mark" /\ eval.had
  /\ \E m \in markedBy : m[2] \in executedFunctions
  /\ Cardinality(executedFunctions) > 1

\* ---------------------------------------------------- scheduler properties
\* the pending scheduler instances of block b
InstancesOf(b) == {i \in 1..Len(scheds) : scheds[i].b = b}

\* C16: at most one scheduler instance per block - at any time at most one
\* retry chain is pending for a block; a scheduler evaluation runs only in a
\* render that creates the block's action control, and a render of a block
\* whose control exists starts nothing.
C16_OneInstancePerBlock ==
  /\ \A b \in Blocks : Cardinality(InstancesOf(b)) <= 1
  /\ eval.out \in {"storage", "disabled", "busy", "direct", "retry"} => HasControl(eval.b)

\* C17: one activation per scheduler instance - a direct attempt that finds
\* the control actionable triggers it and starts no retry loop; a failed
\* direct attempt triggers nothing and starts one retry loop; a retry attempt
\* that dispatches a click ends its loop; and no step triggers more than the
\* one control it acts on.
C17_OneActivationPerInstance ==
  [][/\ eval'.out = "direct" => (click'.by = "direct" /\ scheds' = scheds)
     /\ eval'.out = "retry" => (click' = NoClick /\ Len(scheds') = Len(scheds) + 1)
     /\ click'.by = "retry" => Len(scheds') = Len(scheds) - 1
     /\ click'.by \in SchedulerPaths =>
          Cardinality(activated' \ activated) <= 1]_vars
\* a retry attempt has dispatched its click and no retry loop is pending
C17_Witness == click.by = "retry" /\ scheds = <<>> /\ activated # {}

\* C18: retry re-check - a retry attempt that finds the execution of its
\* call recorded stops there: it triggers no control and its timer is not
\* set again; so no retry attempt clicks for, or waits on, a call whose
\* execution is recorded.
C18_RetryRecheck ==
  [][/\ \A i \in 1..Len(scheds) :
          (Retry(i) /\ scheds[i].n < MAX_AUTO_EXECUTE_ATTEMPTS
             /\ CallOfInstance(scheds[i]) \in storage) =>
            /\ click'.by = "stopped"
            /\ scheds' = RemoveAt(scheds, i)
            /\ divs' = divs /\ activated' = activated
     /\ click'.by = "retry" => click'.key \notin storage
     /\ \A i \in 1..Len(scheds) :
          (Len(scheds') = Len(scheds) /\ scheds'[i].n # scheds[i].n) =>
            CallOfInstance(scheds[i]) \notin storage]_vars
\* a retry attempt has stopped on the record of an execution that another
\* path triggered, while the control was actionable
C18_Witness ==
  /\ click.by = "stopped" /\ click.key \in storage
  /\ ~Pending(click.b)
  /\ HasControl(click.b) /\ divs[click.b][reg[click.b]].button = "ready"

\* C19: the retry loop terminates - whatever the action control does,
\* pending retry timers lead to a state with no timer pending, and a loop
\* ends only by dispatching its click, by exceeding the attempt ceiling or
\* by finding the execution of its call recorded.
C19_RetryTerminates ==
  /\ (scheds # <<>>) ~> (scheds = <<>>)
  /\ [][Len(scheds') < Len(scheds) =>
          \E i \in 1..Len(scheds) :
            /\ scheds' = RemoveAt(scheds, i)
            /\ \/ click'.by = "retry"
               \/ click'.by = "stopped"
               \/ scheds[i].n = MAX_AUTO_EXECUTE_ATTEMPTS /\ scheds[i].b \in gaveUp']_vars
\* a loop has ended at the ceiling after the control stayed out of reach
C19_Witness ==
  scheds = <<>> /\ gaveUp # {} /\ activated = {}

\* C20: trigger errors are retry-eligible - a direct attempt that cannot
\* trigger the control (out of reach, or the activation throws) leaves the
\* render to complete with the control in place and starts the retry loop; a
\* retry attempt within the ceiling that cannot trigger the control sets the
\* timer of the next attempt.
C20_FailuresRetried ==
  [][/\ eval'.out = "retry" =>
          /\ click' = NoClick
          /\ Len(scheds') = Len(scheds) + 1
          /\ SubSeq(scheds', 1, Len(scheds)) = scheds
          /\ scheds'[Len(scheds')].b = eval'.b /\ scheds'[Len(scheds')].n = 0
          /\ reg'[eval'.b] # 0 /\ hidden'[eval'.b]
          /\ divs'[eval'.b][reg'[eval'.b]].button # "none"
     /\ click'.by = "failed" =>
          \E i \in 1..Len(scheds) :
            /\ scheds[i].b = click'.b
            /\ scheds[i].n < MAX_AUTO_EXECUTE_ATTEMPTS
            /\ scheds' = [scheds EXCEPT ![i].n = scheds[i].n + 1]
     /\ \A i \in 1..Len(scheds) :
          (Retry(i) /\ scheds[i].n < MAX_AUTO_EXECUTE_ATTEMPTS
             /\ CallOfInstance(scheds[i]) \notin storage /\ click'.by # "retry") =>
            (click'.by = "failed" /\ Len(scheds') = Len(scheds))]_vars
\* the activation threw in the last attempt within the ceiling and the next
\* timer is pending
C20_Witness ==
  /\ click.by = "failed" /\ click.why = "threw"
  /\ \E i \in 1..Len(scheds) :
       scheds[i].b = click.b /\ scheds[i].n = MAX_AUTO_EXECUTE_ATTEMPTS

\* C21: retry state ends when the block is removed - a retry attempt of a
\* loop whose RawBlock, with its rendered subtree, is out of the document
\* triggers no action control.
C21_RetryEndsOnRemoval ==
  [][\A i \in 1..Len(scheds) :
       (Retry(i) /\ ~par[scheds[i].b]
          /\ \A d \in 1..Len(divs[scheds[i].b]) : ~divs[scheds[i].b][d].inDoc) =>
         click'.by # "retry"]_vars

\* C22: backoff delays - the delay set after failed retry attempt k, k in
\* 1..8, is min(150 * 1.5^(k-1), 1000) ms: it is 150 ms after the first
\* attempt, never exceeds 1000 ms, and from one attempt to the next it does
\* not decrease and grows by the factor 1.5 as long as it is below 1000 ms.
C22_BackoffDelays ==
  /\ [](click.by = "failed" =>
          /\ click.n \in 1..8
          /\ click.n = 1 => click.delay = 150 * DelayUnit
          /\ click.delay <= 1000 * DelayUnit
          /\ \/ click.delay * Pow(2, click.n - 1) = 150 * Pow(3, click.n - 1) * DelayUnit
             \/ /\ click.delay = 1000 * DelayUnit
                /\ 150 * Pow(3, click.n - 1) > 1000 * Pow(2, click.n - 1))
  /\ [][(click.by = "failed" /\ click'.by = "failed" /\ click'.n = click.n + 1) =>
          /\ click'.delay >= click.delay
          /\ click'.delay < 1000 * DelayUnit => 2 * click'.delay = 3 * click.delay]_vars
\* the eighth attempt of a loop has failed and its timer is set to the cap
C22_Witness ==
  /\ click.by = "failed" /\ click.n = 8 /\ click.delay = 1000 * DelayUnit
  /\ \E i \in 1..Len(scheds) : scheds[i].n = 8

\* ------------------------------------------------------- render properties
\* the rendered block number d of block b before a step, a fresh one if the
\* step creates it
DivBefore(b, d) == IF d <= Len(divs[b]) THEN divs[b][d] ELSE NewDiv

\* C23: action controls appear once and only on completeness - a rendered
\* block never holds more than one raw-content toggle nor more than one
\* action control, and a toggle or a control is added to it only by a scan
\* of its block that finds the call complete.
C23_ControlsOnceOnComplete ==
  /\ [](\A b \in Blocks : \A d \in 1..Len(divs[b]) :
          /\ divs[b][d].toggles <= 1 /\ divs[b][d].controls <= 1
          /\ divs[b][d].controls = IF divs[b][d].button = "none" THEN 0 ELSE 1)
  /\ [][\A b \in Blocks : \A d \in 1..Len(divs'[b]) :
          (\/ divs'[b][d].toggles > DivBefore(b, d).toggles
           \/ divs'[b][d].controls > DivBefore(b, d).controls) =>
            /\ text' = text /\ reg'[b] = d
            /\ \E t \in {Scan(text[b])} : t.has /\ t.complete]_vars
\* the text of a block went from complete back to incomplete: its rendered
\* block is loading again and holds one toggle and one control
C23_Witness ==
  \E b \in Blocks :
    /\ reg[b] # 0 /\ divs[b][reg[b]].inDoc /\ divs[b][reg[b]].loading
    /\ divs[b][reg[b]].toggles = 1 /\ divs[b][reg[b]].controls = 1
    /\ ~Scan(text[b]).complete

\* C24: lifecycle state tracks completeness - after a scan of a RawBlock
\* that the host page had not marked as one of an earlier conversation, its
\* rendered block carries the loading class exactly when the scan found the
\* call incomplete and the complete class exactly when it found it complete,
\* a block first seen complete included.
C24_LifecycleTracksCompleteness ==
  [][\A b \in Blocks \ preExisting :
       (Render(b) /\ reg'[b] # 0) =>
         \E t \in {Scan(text[b])} :
           t.has => /\ divs'[b][reg'[b]].loading = ~t.complete
                    /\ divs'[b][reg'[b]].completec = t.complete]_vars

\* the name/value node pairs of the rendered blocks of block b, by name
PairNames(d) == [i \in 1..Len(d.params) |-> d.params[i].n]

\* C25: parameter nodes are patched in place - a rendered block never holds
\* two name/value pairs of one parameter name; a step keeps every pair at
\* its position and changes at most its text and its streaming state; and
\* the pair of a parameter that appears later is appended after the others.
C25_ParamsPatchedInPlace ==
  /\ [](\A b \in Blocks : \A d \in 1..Len(divs[b]) :
          \A i, j \in 1..Len(divs[b][d].params) :
            divs[b][d].params[i].n = divs[b][d].params[j].n => i = j)
  /\ [][\A b \in Blocks : \A d \in 1..Len(divs[b]) :
          /\ Len(divs'[b]) >= Len(divs[b])
          /\ Len(divs'[b][d].params) >= Len(divs[b][d].params)
          /\ SubSeq(PairNames(divs'[b][d]), 1, Len(divs[b][d].params))
               = PairNames(divs[b][d])]_vars
\* the rendered block holds the pair of q before the pair of r and was
\* scanned again on a text that starts with r
C25_Witness ==
  \E b \in Blocks :
    /\ reg[b] # 0
    /\ PairNames(divs[b][reg[b]]) = <<"q", "r">>
    /\ text[b] = StreamTexts[5]
    /\ divs[b][reg[b]].params[2].v = <<"i">>
    /\ divs[b][reg[b]].params[2].sc /\ ~divs[b][reg[b]].params[1].sc

\* the pending clear-timers of parameter name of block b
TimersOf(b, name) == {x \in streamTimers : x[1] = b /\ x[2] = name}

\* C26: streaming marker lifetime - the class on the name node and the
\* data-streaming attribute on the value node are set and cleared together;
\* a parameter has at most one clear-timer pending; a marked parameter has
\* its clear-timer pending, set to 3 s by the last streaming update; a scan
\* leaves a parameter marked exactly when it reports it streaming, so the
\* next update that reports it complete removes the marker at once; and a
\* marker appears only in a scan that reports the parameter streaming.
C26_StreamingMarkerLifetime ==
  /\ [](\A b \in Blocks : \A d \in 1..Len(divs[b]) :
          \A i \in 1..Len(divs[b][d].params) :
            /\ divs[b][d].params[i].sc = divs[b][d].params[i].ds
            /\ divs[b][d].params[i].sc => TimersOf(b, divs[b][d].params[i].n) # {})
  /\ [](\A b \in Blocks, name \in ParamNames :
          /\ Cardinality(TimersOf(b, name)) <= 1
          /\ \A x \in TimersOf(b, name) : x[3] <= STREAM_CLEAR_DELAY)
  /\ [][\A b \in Blocks :
          (Render(b) /\ reg'[b] # 0) =>
            \E t \in {Scan(text[b])} :
              t.has =>
                \A k \in 1..Len(t.ps) :
                  \E i \in 1..Len(divs'[b][reg'[b]].params) :
                    /\ divs'[b][reg'[b]].params[i].n = t.ps[k].n
                    /\ divs'[b][reg'[b]].params[i].sc = t.ps[k].open
                    /\ t.ps[k].open =>
                         TimersOf(b, t.ps[k].n)' = {<<b, t.ps[k].n, STREAM_CLEAR_DELAY>>}]_vars
  /\ [][\A b \in Blocks : \A d \in 1..Len(divs'[b]) :
          \A i \in 1..Len(divs'[b][d].params) :
            (/\ divs'[b][d].params[i].sc
             /\ ~(d <= Len(divs[b]) /\ i <= Len(divs[b][d].params)
                    /\ divs[b][d].params[i].sc)) =>
              /\ text' = text
              /\ \E t \in {Scan(text[b])} :
                   \E k \in 1..Len(t.ps) :
                     t.ps[k].n = divs'[b][d].params[i].n /\ t.ps[k].open]_vars

\* a call of renderFunctionCall on block b that returns true: the block holds
\* the directive and the call does not stop for want of a parent (line 617)
Succeeds(b) ==
  /\ Render(b)
  /\ \E t \in {Scan(text[b])} : t.has
  /\ ~(Len(divs'[b]) > Len(divs[b]) /\ ~par[b])

\* C27: first render placement - after a successful render of a RawBlock
\* that has a parent, its rendered block has been placed right before it
\* and the RawBlock is hidden,
\* the first successful render having put it there; no scan takes a
\* RawBlock out of the document; and no scan moves, removes or inserts a
\* rendered block that existed before it.
C27_FirstRenderPlacement ==
  [][\A b \in Blocks :
       /\ Render(b) =>
            /\ par' = par
            /\ \A d \in 1..Len(divs[b]) :
                 /\ divs'[b][d].inDoc = divs[b][d].inDoc
                 /\ divs'[b][d].place = divs[b][d].place
       /\ (Succeeds(b) /\ par[b]) =>
            /\ reg'[b] # 0 /\ hidden'[b]
            /\ divs'[b][reg'[b]].place = "before"]_vars

\* ---------------------------------------------------- coordinator properties
\* the item timers pending in q
Items(q) == {i \in 1..Len(q) : q[i].kind = "item"}

\* C28: staggered batch processing - the callback that finds a batch of n
\* blocks sets one timer per block, block k (counted from 0) at k * 100 ms,
\* in discovery order; a step processes at most one block, one whose timer
\* is due and before which no block of its batch is waiting; the timers of
\* the other blocks stay pending whatever the call did, an exception
\* included; the last block of a batch sets the re-enable timer, and when
\* that fires the coordinator is enabled.
C28_StaggeredBatch ==
  [][/\ batches' = batches + 1 =>
          /\ Len(obsTimers') > Len(obsTimers)
          /\ \A k \in 1..(Len(obsTimers') - Len(obsTimers)) :
               /\ obsTimers'[Len(obsTimers) + k].kind = "item"
               /\ obsTimers'[Len(obsTimers) + k].left = k - 1
               /\ obsTimers'[Len(obsTimers) + k].last = (k = Len(obsTimers') - Len(obsTimers))
     /\ Cardinality(Items(obsTimers)) - Cardinality(Items(obsTimers')) <= 1
     /\ \A i \in 1..Len(obsTimers) :
          ItemFire(i) =>
            /\ obsTimers[i].left = 0
            /\ \A j \in 1..(i - 1) :
                 obsTimers[j].kind = "item" =>
                   \E m \in j..(i - 1) : obsTimers[m].kind = "item" /\ obsTimers[m].last
            /\ \A j \in 1..Len(obsTimers) :
                 (j # i /\ obsTimers[j].kind = "item") =>
                   \E m \in 1..Len(obsTimers') : obsTimers'[m] = obsTimers[j]
            /\ obsTimers[i].last =>
                 /\ obsTimers' # <<>>
                 /\ obsTimers'[Len(obsTimers')].kind = "reenable"
                 /\ obsTimers'[Len(obsTimers')].left = 1
     /\ \A i \in 1..Len(obsTimers) : ReenableFire(i) => observerEnabled']_vars
\* the call for the last block of a batch threw, and the coordinator has
\* been enabled again by the re-enable timer of that batch
C28_Witness ==
  /\ eval.out = "item" /\ eval.threw /\ eval.last
  /\ batches = 1 /\ obsTimers = <<>> /\ observerEnabled

\* the Ledger key of the call in the text of block b, read off the tokens
\* of the text: function name, call identifier and content signature
\* joined by ':', the call identifier being the call_id of the invoke tag,
\* or without one the block identifier
ExpectedLedgerKey(b, t) ==
  LET name == IF Has(text[b], InvokeWithId) \/ Has(text[b], InvokeNoId)
                THEN <<"s">> ELSE DefaultName
      cid == IF Has(text[b], InvokeWithId) THEN <<"c">> ELSE BlockId(b)
  IN name \o <<":">> \o cid \o <<":">> \o generateContentSignature(name, t.ps)

\* C29: ledger key of a scheduled call - a scheduler evaluation that
\* proceeds (direct attempt or retry loop) adds to the Ledger exactly the
\* key built from the function name, the call identifier and the content
\* signature of the call, the call identifier being the explicit call_id of
\* the invoke tag when there is one and the block identifier otherwise.
C29_LedgerKeyOfScheduledCall ==
  [][\A b \in Blocks :
       (Render(b) /\ eval'.out \in SchedulerPaths) =>
         \E t \in {Scan(text[b])} :
           executedFunctions' = executedFunctions \cup {ExpectedLedgerKey(b, t)}]_vars
\* the scheduler has proceeded for a call whose invoke tag has no call_id,
\* and the Ledger holds the key with the block identifier
C29_Witness ==
  \E b \in Blocks :
    /\ eval.out \in SchedulerPaths /\ eval.b = b
    /\ text[b] = Texts[5]
    /\ \E k \in executedFunctions :
         SubSeq(k, 1, 5) = <<"s", ":", "b", Digit[b], ":">>

\* ------------------------------------------------------- scanner properties
\* C30: the periodic scanner respects the user toggle and the control state
\* - a delayed click of the scanner activates its control only if, when the
\* timer fires, auto-execute is enabled, the control is not disabled and its
\* data-auto-exec-ready attribute is not 'false'; otherwise - the toggle
\* switched off since the scan included - the callback changes no control
\* and activates nothing.
C30_ScannerRespectsToggle ==
  [][\A c \in scanClicks :
       ScannerClick(c) =>
         IF /\ toggle = "on"
            /\ (c.live => /\ divs[c.b][c.d].button = "ready"
                          /\ divs[c.b][c.d].aer)
            /\ (~c.live => c.ready)
           THEN click'.by = "scanner"
           ELSE /\ click'.by = "suppressed"
                /\ divs' = divs /\ activated' = activated]_vars
\* the toggle was switched off between the scan and the delayed click: the
\* click was suppressed and the control is still actionable
C30_Witness ==
  /\ click.by = "suppressed" /\ ~click.flag /\ toggle = "off"
  /\ HasControl(click.b) /\ Clickable(divs[click.b][reg[click.b]])
  /\ activated = {}

\* C32: a scheduler only triggers its own block - every activation that a
\* retry attempt dispatches hits the action control of the rendered block
\* of the RawBlock whose scheduler started the loop, the control found by
\* the document-wide search included.
C32_SchedulerTriggersOwnBlock ==
  click.by = "retry" => click.b = click.from

\* C35: a failed render leaves no trace - a call of renderFunctionCall on a
\* RawBlock without a parent node that holds the directive leaves the
\* registry without an entry for the block; so every entry of the registry
\* is a rendered block that was inserted before its RawBlock, and a scan of
\* a RawBlock that has a parent leaves it rendered and inserted.
C35_FailedRenderLeavesNoTrace ==
  /\ [](\A b \in Blocks : reg[b] # 0 => divs[b][reg[b]].place = "before")
  /\ [][\A b \in Blocks :
          (Render(b) /\ \E t \in {Scan(text[b])} : t.has) =>
            IF par[b]
              THEN reg'[b] # 0 /\ divs'[b][reg'[b]].place = "before"
              ELSE reg[b] = 0 => reg'[b] = 0]_vars

IsPrefix(p, f) == Len(p) <= Len(f) /\ SubSeq(f, 1, Len(p)) = p

\* C36: streamed partial values grow towards the final value - when a scan
\* of a growing text reports a parameter complete that the rendered block
\* showed as streaming (by an earlier scan of the same text), the partial
\* value shown until then is a prefix of the final value.
C36_PartialValuesGrow ==
  [][\A b \in Blocks :
       (Render(b) /\ reg[b] # 0) =>
         \E t \in {Scan(text[b])} :
           \A i \in 1..Len(divs[b][reg[b]].params) : \A k \in 1..Len(t.ps) :
             (/\ divs[b][reg[b]].params[i].sc
              /\ t.ps[k].n = divs[b][reg[b]].params[i].n
              /\ ~t.ps[k].open) =>
               IsPrefix(divs[b][reg[b]].params[i].v, t.ps[k].v)]_vars

\* C38: the render path never overrides an explicit user preference - a
\* call of renderFunctionCall changes the auto-execute flag only from
\* undefined to the default (enabled), and only in a scheduler evaluation;
\* a flag that is explicitly on or off is changed by the user alone; the
\* retry loop and the periodic scanner never write the flag.
C38_PreferenceNotOverridden ==
  [][/\ \A b \in Blocks :
          Render(b) =>
            \/ toggle' = toggle
            \/ toggle = "undef" /\ toggle' = "on" /\ eval'.out # "none"
     /\ (toggle \in {"on", "off"} /\ toggle' # toggle) => \E v \in {"on", "off"} : SetToggle(v)
     /\ \A i \in 1..Len(scheds) : Retry(i) => toggle' = toggle
     /\ ScannerRun => toggle' = toggle
     /\ \A c \in scanClicks : ScannerClick(c) => toggle' = toggle]_vars
\* a scheduler evaluation has run while the user had auto-execute switched
\* off, and it is still off
C38_Witness ==
  /\ eval.out = "disabled" /\ ~eval.flag
  /\ toggle = "off"
  /\ divs[eval.b][reg[eval.b]].controls = 1

\* C37: explicit enable/disable of the observer is respected - from a call
\* of disableDOMObserver() until the next call of enableDOMObserver() the
\* mutation callback queues no block: neither the re-enable timer of a batch
\* nor the setupDOMObserver timer set by a render switches the coordinator
\* back on.
C37_ExplicitDisableRespected ==
  [][explicitOff => (batches' = batches /\ (explicitOff' => ~observerEnabled'))]_vars

\* C31: liveness of discovery - every RawBlock inserted into the document
\* while the coordinator is set up is eventually rendered once its text holds
\* the call directive, also when it was inserted before the directive had
\* streamed in or while the coordinator was suppressed.
C31_DiscoveryIsLive ==
  \A b \in Blocks : (par[b] /\ Scan(text[b]).has) ~> (reg[b] # 0)

\* ------------------------------------------------------ sidebar properties
\* C39: the sidebar transition flag always clears - after every
\* startTransition() isTransitioning eventually returns to false, whatever
\* handleResize calls come in between, and the shared handle
\* transitionTimerRef holds the only pending timeout at any time.
OneTimerHeld ==
  /\ Len(sidebarTimers) <= 1
  /\ \A i \in DOMAIN sidebarTimers : sidebarTimers[i].held
C39_TransitionFlagClears ==
  /\ isTransitioning ~> ~isTransitioning
  /\ []OneTimerHeld

\* ------------------------------------------------ ledger and scheduler
\* the Ledger keys of the calls whose action control has been activated, and
\* of the calls a pending scheduler instance was started for
ActivatedKeys == {LedgerKeyOf(a[2]) : a \in activated}
PendingKeys == {LedgerKeyOf(CallOfInstance(scheds[i])) : i \in 1..Len(scheds)}

\* C33: a Ledger entry reflects a real or pending execution - every key of
\* the in-process Ledger belongs to a call whose action control has been
\* activated or for which a scheduler instance is still pending; so a call
\* whose scheduler gave up at the attempt ceiling without an activation is
\* not reported as executed.
C33_LedgerEntryIsRealOrPending ==
  executedFunctions \subseteq (ActivatedKeys \cup PendingKeys)

\* the name of a marked call, or of a stored record, agrees with the name of
\* a lookup: it is the same, or one of the two was made without a name
NamesAgree(n1, n2) == n1 = n2 \/ n1 = Undefined \/ n2 = Undefined

\* C34: Ledger lookups do not alias distinct calls - whenever
\* isFunctionExecuted(callId, signature, name) is true, persistent storage
\* holds a record of that call id and signature, or markFunctionExecuted was
\* called before with that call id and that signature, in both cases with
\* the same function name or with no name on one side; call ids and names
\* that hold ':' included.
C34_LookupsDoNotAlias ==
  \A c \in AliasCallIds, g \in LedgerSigs, n \in AliasNames :
    isFunctionExecuted(executedFunctions, storage, c, g, n) =>
      \/ \E r \in storage : r[2] = c /\ r[3] = g /\ NamesAgree(r[1], n)
      \/ \E m \in marks : m[1] = c /\ m[2] = g /\ NamesAgree(m[3], n)

====
